---- MODULE Spec2Model ----
(***************************************************************************)
(* Parallizer backend (src/parallizer/backend_handler.py): the per-user    *)
(* card cache, the similarity/merge policy, the background orchestration   *)
(* of fulfillers and the /fulfill, /cached, /user/{id}/feed and / handlers.*)
(* Parallax client: SuggestionTracker (src/parallax/core/                  *)
(* suggestion_tracker.py), FeedHandler (src/parallax/core/feed_handler.py) *)
(* and QueryCache with cached_predictor (src/utils/query_cache.py).        *)
(***************************************************************************)
EXTENDS Integers, Sequences, FiniteSets, TLC

VARIABLES
    fulfillers,    \* registered fulfillers (module global, set at startup)
    user_caches,   \* dict user_id -> UserCache
    now,           \* time.time()
    background,    \* background tasks added by /fulfill and not yet started
    runs,          \* invoke_fulfillers_background coroutines in flight
    last,          \* the last step taken: operation, user and outcome
    polled,        \* per user: the last /cached response, while nothing touched the user since
    cleared,       \* per user: feed cleared and no /fulfill received since
    applied,       \* the last direct call of update_user_cache_with_cards
    triggers,      \* number of /fulfill requests received
    response,      \* the HTTP response of the last step, when it was a request
    request,       \* the body of the last step's request, when it was a POST /fulfill
    storage_file,        \* the file ~/.parallax_deleted_suggestions.json
    suggestion_tracker,  \* the SuggestionTracker of the running editor
    query_cache,         \* a QueryCache and the predictor wrapped with it
    feed_handler,        \* the FeedHandler of the running editor, with its widgets
    call,                \* the last call made on a client object: name, arguments, result
    history              \* what the calls made so far are expected to have left behind

serverVars == <<fulfillers, user_caches, now, background, runs, last, polled, cleared, applied,
                triggers, response, request>>

clientVars == <<storage_file, suggestion_tracker, query_cache, feed_handler, call, history>>

vars == <<fulfillers, user_caches, now, background, runs, last, polled, cleared, applied, triggers,
          response, request, storage_file, suggestion_tracker, query_cache, feed_handler, call,
          history>>

---------------------------------------------------------------------------
(* Bounds of the model *)

MaxTriggers == 2
MaxTicks == 1

(* Program constants *)

MAX_CARDS_PER_TYPE == 3
CACHE_EXPIRY_SECONDS == 3600

Users == {"u1", "u2"}

\* class CardType(Enum), in declaration order
CardType == <<"QUESTION", "CONTEXT", "COMPLETION">>

\* CardType.value
TypeValue(t) ==
    CASE t = "QUESTION" -> "question"
      [] t = "CONTEXT" -> "context"
      [] t = "COMPLETION" -> "completion"

CardTypes == {CardType[i] : i \in DOMAIN CardType}

\* A text is a sequence of characters.
Card(ty, tx) == [type |-> ty, text |-> tx]

---------------------------------------------------------------------------
(* str.lower(), str.strip(), substring search *)

LowerChar(c) ==
    CASE c = "A" -> "a"
      [] c = "B" -> "b"
      [] OTHER -> c

Lower(s) == [i \in DOMAIN s |-> LowerChar(s[i])]

IsSpace(c) == c = " "

RECURSIVE LStrip(_)
LStrip(s) ==
    IF s # <<>> /\ IsSpace(Head(s)) THEN LStrip(Tail(s)) ELSE s

RECURSIVE RStrip(_)
RStrip(s) ==
    IF s # <<>> /\ IsSpace(s[Len(s)]) THEN RStrip(SubSeq(s, 1, Len(s) - 1)) ELSE s

Strip(s) == RStrip(LStrip(s))

\* shorter in longer
Contains(shorter, longer) ==
    \E j \in 0..(Len(longer) - Len(shorter)) :
        SubSeq(longer, j + 1, j + Len(shorter)) = shorter

Max(S) == CHOOSE x \in S : \A y \in S : y <= x

\* the while loop at lines 241-244: k counts equal characters from s[i], l[j] (0-based i, j)
RECURSIVE RunLength(_, _, _, _, _)
RunLength(s, l, i, j, k) ==
    IF i + k < Len(s) /\ j + k < Len(l) /\ s[i + k + 1] = l[j + k + 1]
    THEN RunLength(s, l, i, j, k + 1)
    ELSE k

\* lines 230-245
MaxOverlap(shorter, longer) ==
    IF Contains(shorter, longer)
    THEN Len(shorter)
    ELSE Max({0} \cup {RunLength(shorter, longer, i, j, 0) :
                          i \in 0..(Len(shorter) - 1), j \in 0..(Len(longer) - 1)})

\* the comparison of line 251 with > for >=
TooSimilarAbove(new_text_lower, existing_text_lower) ==
    LET newShorter == Len(new_text_lower) <= Len(existing_text_lower)
        shorter == IF newShorter THEN new_text_lower ELSE existing_text_lower
        longer == IF newShorter THEN existing_text_lower ELSE new_text_lower
    IN Len(shorter) > 0 /\ 2 * MaxOverlap(shorter, longer) > Len(shorter)

\* lines 225-252 for one existing text: similarity >= threshold (0.5)
TooSimilar(new_text_lower, existing_text_lower) ==
    LET newShorter == Len(new_text_lower) <= Len(existing_text_lower)
        shorter == IF newShorter THEN new_text_lower ELSE existing_text_lower
        longer == IF newShorter THEN existing_text_lower ELSE new_text_lower
        max_overlap == MaxOverlap(shorter, longer)
        shorter_len == Len(shorter)
    IN  \* max_overlap / shorter_len >= 0.5, and similarity 0 when shorter_len = 0
        shorter_len > 0 /\ 2 * max_overlap >= shorter_len

\* a check that finds every text different
always_different(new_text, existing_texts) == TRUE

\* the function without the early return for an empty new text (lines 216-217)
different_without_empty_check(new_text, existing_texts) ==
    IF existing_texts = <<>> THEN TRUE
    ELSE LET new_text_lower == Strip(Lower(new_text))
         IN \A n \in DOMAIN existing_texts :
                LET existing_text_lower == Strip(Lower(existing_texts[n]))
                IN existing_text_lower = <<>>
                   \/ ~TooSimilar(new_text_lower, existing_text_lower)

is_text_substantially_different(new_text, existing_texts) ==
    IF existing_texts = <<>> THEN TRUE
    ELSE LET new_text_lower == Strip(Lower(new_text))
         IN IF new_text_lower = <<>> THEN FALSE
            ELSE \A n \in DOMAIN existing_texts :
                    LET existing_text_lower == Strip(Lower(existing_texts[n]))
                    IN existing_text_lower = <<>>
                       \/ ~TooSimilar(new_text_lower, existing_text_lower)

---------------------------------------------------------------------------
(* The cache store *)

\* UserCache(user_id=user_id): no cards, last_updated = time.time(), not processing
UserCache(t) ==
    [cards |-> <<>>, last_updated |-> t, processing |-> FALSE, request_count |-> 0]

\* a lookup that refreshes last_updated of the cache it finds
get_or_create_cache_touching(caches, user_id, t) ==
    IF user_id \in DOMAIN caches
    THEN [caches EXCEPT ![user_id].last_updated = t]
    ELSE [u \in DOMAIN caches \cup {user_id} |->
             IF u = user_id THEN UserCache(t) ELSE caches[u]]

get_or_create_cache(caches, user_id, t) ==
    IF user_id \in DOMAIN caches
    THEN caches
    ELSE [u \in DOMAIN caches \cup {user_id} |->
             IF u = user_id THEN UserCache(t) ELSE caches[u]]

\* a delete that empties the whole store
DelEverything(caches, gone) == [u \in {} |-> caches[u]]

DelCache(caches, gone) == [u \in DOMAIN caches \ gone |-> caches[u]]

OfType(cards, ty) == SelectSeq(cards, LAMBDA c : c.type = ty)

Texts(cards) == [i \in DOMAIN cards |-> cards[i].text]

\* a trim that keeps the oldest MAX_CARDS_PER_TYPE cards
TrimNewest(list) ==
    IF Len(list) > MAX_CARDS_PER_TYPE
    THEN SubSeq(list, 1, MAX_CARDS_PER_TYPE)
    ELSE list

\* the trim of lines 290-291 with the limit off by one
TrimLate(list) ==
    IF Len(list) > MAX_CARDS_PER_TYPE + 1
    THEN SubSeq(list, Len(list) - MAX_CARDS_PER_TYPE + 1, Len(list))
    ELSE list

\* cards_by_type[card.type][-MAX_CARDS_PER_TYPE:]
Trim(list) ==
    IF Len(list) > MAX_CARDS_PER_TYPE
    THEN SubSeq(list, Len(list) - MAX_CARDS_PER_TYPE + 1, Len(list))
    ELSE list

\* one iteration of the loop at lines 278-292
AddCard(cards_by_type, card) ==
    LET list == cards_by_type[card.type]
        appended == IF is_text_substantially_different(card.text, Texts(list))
                    THEN Append(list, card)
                    ELSE list
    IN [cards_by_type EXCEPT ![card.type] = Trim(appended)]

RECURSIVE AddCards(_, _)
AddCards(cards_by_type, new_cards) ==
    IF new_cards = <<>> THEN cards_by_type
    ELSE AddCards(AddCard(cards_by_type, Head(new_cards)), Tail(new_cards))

\* lines 272-275
ByType(cards) == [ty \in CardTypes |-> OfType(cards, ty)]

\* a flatten that takes the types in the alphabetical order of their values
FlattenByValue(cards_by_type, n) ==
    cards_by_type["COMPLETION"] \o cards_by_type["CONTEXT"] \o cards_by_type["QUESTION"]

\* lines 294-297: for card_type in CardType: updated_cards.extend(...)
RECURSIVE Flatten(_, _)
Flatten(cards_by_type, n) ==
    IF n = 0 THEN <<>>
    ELSE Flatten(cards_by_type, n - 1) \o cards_by_type[CardType[n]]

MergeCards(cards, new_cards) ==
    Flatten(AddCards(ByType(cards), new_cards), Len(CardType))

\* a merge that writes the merged list and the time into every cache of the store
update_every_cache(caches, user_id, new_cards, t) ==
    LET c == get_or_create_cache(caches, user_id, t)
        merged == MergeCards(c[user_id].cards, new_cards)
    IN [u \in DOMAIN c |-> [c[u] EXCEPT !.cards = merged, !.last_updated = t]]

\* a merge computed from a card list read before the merges of the sibling producers
update_from_stale_snapshot(caches, user_id, new_cards, t) ==
    LET c == get_or_create_cache(caches, user_id, t)
    IN [c EXCEPT ![user_id].cards = MergeCards(<<>>, new_cards),
                 ![user_id].last_updated = t]

update_user_cache_with_cards(caches, user_id, new_cards, t) ==
    LET c == get_or_create_cache(caches, user_id, t)
    IN [c EXCEPT ![user_id].cards = MergeCards(c[user_id].cards, new_cards),
                 ![user_id].last_updated = t]

\* the comparison of line 407 with >= for >
ExpiredAtExpiry(cache, current_time) ==
    current_time - cache.last_updated >= CACHE_EXPIRY_SECONDS

\* lines 404-408
Expired(cache, current_time) ==
    current_time - cache.last_updated > CACHE_EXPIRY_SECONDS

expired_users(caches, current_time) ==
    {u \in DOMAIN caches : Expired(caches[u], current_time)}

\* CardResponse(header, text, type=card.type.value, metadata)
CardResponse(card) == [text |-> card.text, type |-> TypeValue(card.type)]

CardResponses(cards) == [i \in DOMAIN cards |-> CardResponse(cards[i])]

\* the response stamped with the time of the request instead of cache.last_updated
CachedResponseStamped(caches, user_id, t) ==
    LET cache == get_or_create_cache(caches, user_id, t)[user_id]
    IN [cards |-> CardResponses(cache.cards),
        last_updated |-> t,
        processing |-> cache.processing]

\* CachedResponse built by get_cached from the cache it looked up or created
CachedResponse(caches, user_id, t) ==
    LET cache == get_or_create_cache(caches, user_id, t)[user_id]
    IN [cards |-> CardResponses(cache.cards),
        last_updated |-> cache.last_updated,
        processing |-> cache.processing]

\* an HTTP response: status code, and the fields of FulfillResponse / the status of the
\* dict returned by clear_user_feed
Response(status, cards, processing, detail) ==
    [status |-> status, cards |-> cards, processing |-> processing, detail |-> detail]

NoResponse == Response(0, <<>>, FALSE, "none")

\* the response without the cards of the cache
FulfillResponseEmpty(caches, user_id, t) ==
    Response(200, <<>>, TRUE, "none")

\* FulfillResponse(cards=card_responses, processing=True), lines 496-516
FulfillResponse(caches, user_id, t) ==
    LET cache == get_or_create_cache(caches, user_id, t)[user_id]
    IN Response(200, CardResponses(cache.cards), TRUE, "none")

---------------------------------------------------------------------------
(* The body of POST /fulfill and its validation *)

\* a JSON value: its type, and its items when it is an array of integers
Json(type, items) == [type |-> type, items |-> items]

Absent == Json("absent", <<>>)

\* class FulfillRequest(BaseModel): the type every field must have
FulfillRequest ==
    [user_id |-> "string", document_text |-> "string",
     cursor_position |-> "int_array", global_context |-> "object"]

\* a body sent by `user`, field by field
Body(user, user_id, document_text, cursor_position, global_context) ==
    [user |-> user, user_id |-> user_id, document_text |-> document_text,
     cursor_position |-> cursor_position, global_context |-> global_context]

NoRequest == Body("none", Absent, Absent, Absent, Absent)

\* the body of a well-formed request of user u
FulfillBody(u) ==
    Body(u, Json("string", <<>>), Json("string", <<>>), Json("int_array", <<0, 0>>),
         Json("object", <<>>))

\* pydantic: every field present and of its declared type (List[int] of any length)
Validates(body) ==
    \A fld \in DOMAIN FulfillRequest : body[fld].type = FulfillRequest[fld]

\* a handler that accepts any cursor_position that passed the schema
FulfillStatusAnyCursor(body) ==
    IF ~Validates(body) THEN 422 ELSE 200

\* 422 from the schema; 500 when request.cursor_position[0] or [1] raises IndexError
\* inside the try block (lines 477-482, 518-520); 200 otherwise
FulfillStatus(body) ==
    IF ~Validates(body) THEN 422
    ELSE IF Len(body.cursor_position.items) < 2 THEN 500
    ELSE 200

---------------------------------------------------------------------------
(* Fulfillers *)

AllFulfillers == {"Completions", "CodeSearch"}

\* the texts the modelled fulfillers produce
tA == <<"a">>
tB == <<"b">>
tC == <<"c">>
tD == <<"d">>
tAup == <<"A", " ">>
tEmpty == <<>>
tBlank == <<" ">>

\* the non-empty card lists forward() may return
ForwardResults(f) ==
    IF f = "Completions"
    THEN {<<Card("COMPLETION", tA), Card("QUESTION", tAup)>>}
    ELSE {<<Card("CONTEXT", tA), Card("CONTEXT", tB), Card("CONTEXT", tC)>>,
          <<Card("CONTEXT", tD), Card("QUESTION", tA)>>}

RemoveAt(seq, k) == SubSeq(seq, 1, k - 1) \o SubSeq(seq, k + 1, Len(seq))

\* a task that returned, and a task whose exception was caught and logged
Terminal == {"done", "failed"}

RunsOf(u) == {k \in DOMAIN runs : runs[k].user = u}

\* producer tasks dispatched for u and not yet completed
PendingTasks(u) ==
    {<<k, f>> \in (DOMAIN runs) \X AllFulfillers :
        runs[k].user = u /\ f \in DOMAIN runs[k].tasks /\ runs[k].tasks[f] \notin Terminal}

\* the cache objects of these users left the store: runs holding them keep a stale reference
Detach(rs, gone) ==
    [k \in DOMAIN rs |-> IF rs[k].user \in gone THEN [rs[k] EXCEPT !.attached = FALSE] ELSE rs[k]]

NoPoll == [valid |-> FALSE, created |-> FALSE, again |-> FALSE, body |-> <<>>]

Touch(us) == [u \in Users |-> IF u \in us THEN NoPoll ELSE polled[u]]

---------------------------------------------------------------------------
(* SuggestionTracker: keys, the storage file and its loading *)

\* f"{header}|||{content}" (line 85): header and content are strings of characters
SEPARATOR == <<"|", "|", "|">>

_make_key(header, content) == header \o SEPARATOR \o content

\* the storage file: absent, or a file holding some bytes.
\*   "object"     a JSON object; deleted is the list under its key "deleted"
\*   "not_json"   text that json.load refuses (JSONDecodeError)
\*   "not_object" JSON that is not an object, such as [] (no .get: AttributeError)
\*   "not_utf8"   bytes the text decoder refuses (UnicodeDecodeError)
File(kind, deleted) == [kind |-> kind, deleted |-> deleted]

Missing == File("missing", <<>>)

Range(seq) == {seq[i] : i \in DOMAIN seq}

\* list(a_set): the members in some order
RECURSIVE ListOf(_)
ListOf(S) ==
    IF S = {} THEN <<>>
    ELSE LET x == CHOOSE y \in S : TRUE IN <<x>> \o ListOf(S \ {x})

\* a tracker whose constructor raised does not exist (alive is false)
Tracker(alive, deleted_suggestions) ==
    [alive |-> alive, deleted_suggestions |-> deleted_suggestions]

\* what escapes _load (lines 26-35): only JSONDecodeError and IOError are caught
LoadError(file) ==
    CASE file.kind = "not_object" -> "AttributeError"
      [] file.kind = "not_utf8" -> "UnicodeDecodeError"
      [] OTHER -> "none"

\* __init__ and _load (lines 15-35)
_load(file) ==
    CASE file.kind = "missing" -> Tracker(TRUE, {})
      [] file.kind = "object" -> Tracker(TRUE, Range(file.deleted))
      [] file.kind = "not_json" -> Tracker(TRUE, {})
      [] OTHER -> Tracker(FALSE, {})

\* _save (lines 37-44): the file is rewritten, or left as it was when open() raises IOError
_save(file, deleted_suggestions, written) ==
    IF written THEN File("object", ListOf(deleted_suggestions)) ELSE file

---------------------------------------------------------------------------
(* QueryCache and FeedHandler as their constructors leave them *)

\* QueryCache(max_size) of the model
CacheSize == 2

\* __init__ (lines 20-28): _cache is an OrderedDict, here the sequence of its items from
\* the oldest to the newest
QueryCache(max_size) == [_cache |-> <<>>, _max_size |-> max_size]

NewQueryCache == QueryCache(CacheSize)

\* FeedHandler(threshold=...) of the model
Threshold == 2

\* an asyncio task: not created, pending, finished or cancelled; the idle task carries the
\* document text it was created with and is "sleeping" and then "requesting" while pending
Task(state, document_text) == [state |-> state, document_text |-> document_text]

NoTask == Task("none", <<>>)

\* __init__ (lines 46-64); ai_feed is the content of the feed widget and ghost_text the
\* ghost text of the editor widget, both attached by the application at start
FeedHandler(threshold) ==
    [threshold |-> threshold,
     user_id |-> "u1",
     char_count |-> 0,
     last_content |-> <<>>,
     feed_items |-> <<>>,
     ai_feed |-> <<>>,
     ghost_text |-> <<>>,
     _update_in_progress |-> FALSE,
     _last_completion_triggered |-> FALSE,
     _idle_task |-> NoTask,
     _ignoring_next_change |-> FALSE,
     _last_successful_cards |-> <<>>,
     _polling_task |-> "none",
     _stop_polling |-> FALSE]

NewFeedHandler == FeedHandler(Threshold)

\* marked:  the (header, content) pairs passed to mark_deleted since the last clear_all
\* touched: the keys held by the query cache, from the least to the most recently touched
\* evicted: the key the last put removed from the query cache, "none" when it removed none
\* first:   per argument of the wrapped predictor, what the first call with it returned
\* kept:    per argument of the wrapped predictor, the first value other than None that a
\*          call with it returned
\* invoked: whether the last call of the wrapper invoked the predictor
\* content: the text in the editor
\* typed:   the sum of |len(new) - len(previous)| over the user's changes since the counter
\*          was last set to 0
\* burst:   the number of changes the user made since the last trigger ended
NoHistory ==
    [marked |-> {}, touched |-> <<>>, evicted |-> "none", first |-> <<>>, kept |-> <<>>,
     invoked |-> FALSE, content |-> <<>>, typed |-> 0, burst |-> 0]

NoClientCall == [op |-> "none", args |-> <<>>, result |-> "none"]

ClientCall(op, args, result) == [op |-> op, args |-> args, result |-> result]

---------------------------------------------------------------------------
(* State *)

Step(op, u, result) == [op |-> op, user |-> u, result |-> result]

NoCall == [user |-> "none", new_cards |-> <<>>, before |-> <<>>]

\* initialize_fulfillers: all fulfillers registered, or none when one constructor raised
Init ==
    /\ fulfillers \in {AllFulfillers, {}}
    /\ user_caches = <<>>
    /\ now = 0
    /\ background = <<>>
    /\ runs = <<>>
    /\ last = Step("init", "none", "none")
    /\ polled = [u \in Users |-> NoPoll]
    /\ cleared = [u \in Users |-> FALSE]
    /\ applied = NoCall
    /\ triggers = 0
    /\ response = NoResponse
    /\ request = NoRequest
    /\ storage_file = Missing
    /\ suggestion_tracker = _load(Missing)
    /\ query_cache = NewQueryCache
    /\ feed_handler = NewFeedHandler
    /\ call = NoClientCall
    /\ history = NoHistory

\* startup went well: every fulfiller is registered
InitRegistered == Init /\ fulfillers = AllFulfillers

CardsOf(caches, u) == IF u \in DOMAIN caches THEN caches[u].cards ELSE <<>>

---------------------------------------------------------------------------
(* HTTP handlers *)

\* POST /fulfill: look up or create the cache, queue the background task, answer at once
Fulfill(u) ==
    /\ triggers < MaxTriggers
    /\ triggers' = triggers + 1
    /\ LET caches == get_or_create_cache(user_caches, u, now)
       IN /\ user_caches' = caches
          /\ background' = Append(background, [user |-> u, late |-> caches[u].processing])
    /\ last' = Step("fulfill", u, IF u \in DOMAIN user_caches THEN "existing" ELSE "created")
    /\ polled' = Touch({u})
    /\ cleared' = [cleared EXCEPT ![u] = FALSE]
    /\ response' = FulfillResponse(user_caches, u, now)
    /\ UNCHANGED <<fulfillers, now, runs, applied>>

\* a request the schema or the conversion of cursor_position refuses: the handler body
\* up to line 482 has touched nothing
FulfillRejected(body) ==
    /\ response' = Response(FulfillStatus(body), <<>>, FALSE, "error")
    /\ last' = Step("fulfill_invalid", "none", "rejected")
    /\ UNCHANGED <<fulfillers, user_caches, now, background, runs, polled, cleared,
                   applied, triggers>>

\* POST /fulfill with this body
PostFulfill(body) ==
    /\ request' = body
    /\ IF FulfillStatus(body) = 200 THEN Fulfill(body.user) ELSE FulfillRejected(body)
    /\ UNCHANGED clientVars

\* GET /cached/{user_id}: the handler (lines 523-560)
get_cached(u) ==
    /\ user_caches' = get_or_create_cache(user_caches, u, now)
    /\ last' = Step("poll", u, IF u \in DOMAIN user_caches THEN "existing" ELSE "created")
    /\ polled' = [polled EXCEPT ![u] =
                     [valid |-> TRUE,
                      created |-> IF polled[u].valid THEN polled[u].created
                                  ELSE u \notin DOMAIN user_caches,
                      again |-> polled[u].valid,
                      body |-> CachedResponse(user_caches, u, now)]]
    /\ response' = LET body == CachedResponse(user_caches, u, now)
                   IN Response(200, body.cards, body.processing, "none")
    /\ request' = NoRequest
    /\ UNCHANGED <<fulfillers, now, background, runs, cleared, applied, triggers>>

\* GET /cached/{user_id} sent by some other client than the editor modelled here
GetCached(u) == get_cached(u) /\ UNCHANGED clientVars

\* DELETE /user/{user_id}/feed
ClearUserFeed(u) ==
    /\ user_caches' = DelCache(user_caches, {u})
    /\ runs' = Detach(runs, {u})
    /\ last' = Step("clear", u, IF u \in DOMAIN user_caches THEN "success" ELSE "not_found")
    /\ polled' = Touch({u})
    /\ cleared' = [cleared EXCEPT ![u] = TRUE]
    /\ response' = Response(200, <<>>, FALSE,
                            IF u \in DOMAIN user_caches THEN "success" ELSE "not_found")
    /\ request' = NoRequest
    /\ UNCHANGED <<fulfillers, now, background, applied, triggers>>
    /\ UNCHANGED clientVars

\* lines 402-415
cleanup_old_caches(caches, current_time) ==
    DelCache(caches, expired_users(caches, current_time))

\* GET /: the only caller of cleanup_old_caches
Root ==
    /\ user_caches' = cleanup_old_caches(user_caches, now)
    /\ runs' = Detach(runs, DOMAIN user_caches \ DOMAIN user_caches')
    /\ last' = Step("root", "none",
                     IF expired_users(user_caches, now) = {} THEN "kept" ELSE "swept")
    /\ polled' = Touch(Users)
    /\ response' = Response(200, <<>>, FALSE, "healthy")
    /\ request' = NoRequest
    /\ UNCHANGED <<fulfillers, now, background, cleared, applied, triggers>>
    /\ UNCHANGED clientVars

---------------------------------------------------------------------------
(* invoke_fulfillers_background and invoke_single_fulfiller *)

\* lines 365-390: up to the await of asyncio.gather
RunStart(k) ==
    /\ k \in DOMAIN background
    /\ background' = RemoveAt(background, k)
    /\ LET u == background[k].user
       IN IF fulfillers = {}
          THEN UNCHANGED <<user_caches, runs, polled>>
          ELSE LET caches == get_or_create_cache(user_caches, u, now)
               IN /\ user_caches' =
                        [caches EXCEPT ![u].processing = TRUE,
                                       ![u].request_count = caches[u].request_count + 1]
                  /\ runs' = Append(runs, [user |-> u, attached |-> TRUE,
                                           tasks |-> [f \in fulfillers |-> "available"]])
                  /\ polled' = Touch({u})
    /\ last' = Step("start", background[k].user,
                     IF fulfillers = {} THEN "no_fulfillers"
                     ELSE IF background[k].late THEN "dispatched_late" ELSE "dispatched")
    /\ response' = NoResponse
    /\ request' = NoRequest
    /\ UNCHANGED <<fulfillers, now, cleared, applied, triggers>>
    /\ UNCHANGED clientVars

\* the exception escaping the task and ending its siblings with it
OnRaiseAbort(tasks, f) == [g \in DOMAIN tasks |-> "failed"]

\* except Exception (line 345): the failure is logged and ends this task only
OnRaise(tasks, f) == [tasks EXCEPT ![f] = "failed"]

\* a task that goes on to forward() whatever is_available() returned
IsAvailableIgnored(k, f, outcome) ==
    /\ k \in DOMAIN runs
    /\ f \in DOMAIN runs[k].tasks
    /\ runs[k].tasks[f] = "available"
    /\ runs' = [runs EXCEPT ![k].tasks =
                   CASE outcome \in {"true", "false"} -> [@ EXCEPT ![f] = "forward"]
                     [] outcome = "raise" -> OnRaise(@, f)]
    /\ polled' = IF outcome = "true" THEN polled ELSE Touch({runs[k].user})
    /\ last' = Step("is_available", runs[k].user, outcome)
    /\ response' = NoResponse
    /\ request' = NoRequest
    /\ UNCHANGED <<fulfillers, user_caches, now, background, cleared, applied, triggers>>
    /\ UNCHANGED clientVars

\* await fulfiller.is_available() returns True, returns False or raises
IsAvailable(k, f, outcome) ==
    /\ k \in DOMAIN runs
    /\ f \in DOMAIN runs[k].tasks
    /\ runs[k].tasks[f] = "available"
    /\ runs' = [runs EXCEPT ![k].tasks =
                   CASE outcome = "true" -> [@ EXCEPT ![f] = "forward"]
                     [] outcome = "false" -> [@ EXCEPT ![f] = "done"]
                     [] outcome = "raise" -> OnRaise(@, f)]
    /\ polled' = IF outcome = "true" THEN polled ELSE Touch({runs[k].user})
    /\ last' = Step("is_available", runs[k].user, outcome)
    /\ response' = NoResponse
    /\ request' = NoRequest
    /\ UNCHANGED <<fulfillers, user_caches, now, background, cleared, applied, triggers>>
    /\ UNCHANGED clientVars

\* await fulfiller.forward(...) returns cards: the cache is updated at once (lines 341-343)
ForwardCards(k, f, cards) ==
    /\ k \in DOMAIN runs
    /\ f \in DOMAIN runs[k].tasks
    /\ runs[k].tasks[f] = "forward"
    /\ cards \in ForwardResults(f)
    /\ user_caches' = update_user_cache_with_cards(user_caches, runs[k].user, cards, now)
    /\ runs' = [runs EXCEPT ![k].tasks[f] = "done"]
    /\ polled' = Touch({runs[k].user})
    /\ last' = Step("forward", runs[k].user, "cards")
    /\ response' = NoResponse
    /\ request' = NoRequest
    /\ UNCHANGED <<fulfillers, now, background, cleared, applied, triggers>>
    /\ UNCHANGED clientVars

\* forward() returns an empty list and the cache is updated with it all the same
ForwardEmptyMerged(k, f) ==
    /\ k \in DOMAIN runs
    /\ f \in DOMAIN runs[k].tasks
    /\ runs[k].tasks[f] = "forward"
    /\ user_caches' = update_user_cache_with_cards(user_caches, runs[k].user, <<>>, now)
    /\ runs' = [runs EXCEPT ![k].tasks[f] = "done"]
    /\ polled' = Touch({runs[k].user})
    /\ last' = Step("forward", runs[k].user, "empty")
    /\ response' = NoResponse
    /\ request' = NoRequest
    /\ UNCHANGED <<fulfillers, now, background, cleared, applied, triggers>>
    /\ UNCHANGED clientVars

\* forward returns an empty list: `if cards:` is false, the cache is not touched
ForwardEmpty(k, f) ==
    /\ k \in DOMAIN runs
    /\ f \in DOMAIN runs[k].tasks
    /\ runs[k].tasks[f] = "forward"
    /\ runs' = [runs EXCEPT ![k].tasks[f] = "done"]
    /\ polled' = Touch({runs[k].user})
    /\ last' = Step("forward", runs[k].user, "empty")
    /\ response' = NoResponse
    /\ request' = NoRequest
    /\ UNCHANGED <<fulfillers, user_caches, now, background, cleared, applied, triggers>>
    /\ UNCHANGED clientVars

\* forward raises
ForwardRaise(k, f) ==
    /\ k \in DOMAIN runs
    /\ f \in DOMAIN runs[k].tasks
    /\ runs[k].tasks[f] = "forward"
    /\ runs' = [runs EXCEPT ![k].tasks = OnRaise(@, f)]
    /\ polled' = Touch({runs[k].user})
    /\ last' = Step("forward", runs[k].user, "raise")
    /\ response' = NoResponse
    /\ request' = NoRequest
    /\ UNCHANGED <<fulfillers, user_caches, now, background, cleared, applied, triggers>>
    /\ UNCHANGED clientVars

\* a run that ends without the finally clause
RunFinishKeepsFlag(k) ==
    /\ k \in DOMAIN runs
    /\ \A f \in DOMAIN runs[k].tasks : runs[k].tasks[f] \in Terminal
    /\ runs' = RemoveAt(runs, k)
    /\ polled' = Touch({runs[k].user})
    /\ last' = Step("finish", runs[k].user, IF runs[k].attached THEN "attached" ELSE "detached")
    /\ response' = NoResponse
    /\ request' = NoRequest
    /\ UNCHANGED <<fulfillers, user_caches, now, background, cleared, applied, triggers>>
    /\ UNCHANGED clientVars

\* gather has every result: the finally clause resets processing on the cache object
\* the run got at line 369, which is in the store only while the run is attached
RunFinish(k) ==
    /\ k \in DOMAIN runs
    /\ \A f \in DOMAIN runs[k].tasks : runs[k].tasks[f] \in Terminal
    /\ user_caches' = IF runs[k].attached
                      THEN [user_caches EXCEPT ![runs[k].user].processing = FALSE]
                      ELSE user_caches
    /\ runs' = RemoveAt(runs, k)
    /\ polled' = Touch({runs[k].user})
    /\ last' = Step("finish", runs[k].user, IF runs[k].attached THEN "attached" ELSE "detached")
    /\ response' = NoResponse
    /\ request' = NoRequest
    /\ UNCHANGED <<fulfillers, now, background, cleared, applied, triggers>>
    /\ UNCHANGED clientVars

---------------------------------------------------------------------------
(* The clock *)

\* every tick is at least CACHE_EXPIRY_SECONDS long
TicksUsed == now \div CACHE_EXPIRY_SECONDS

Tick(d) ==
    /\ TicksUsed < MaxTicks
    /\ now' = now + d
    /\ last' = Step("tick", "none", "none")
    /\ response' = NoResponse
    /\ request' = NoRequest
    /\ UNCHANGED <<fulfillers, user_caches, background, runs, polled, cleared,
                   applied, triggers>>
    /\ UNCHANGED clientVars

\* a direct call of update_user_cache_with_cards(user_id, new_cards)
ApplyCards(u, new_cards) ==
    /\ user_caches' = update_user_cache_with_cards(user_caches, u, new_cards, now)
    /\ applied' = [user |-> u, new_cards |-> new_cards, before |-> CardsOf(user_caches, u)]
    /\ polled' = Touch({u})
    /\ last' = Step("apply", u, "none")
    /\ response' = NoResponse
    /\ request' = NoRequest
    /\ UNCHANGED <<fulfillers, now, background, runs, cleared, triggers>>
    /\ UNCHANGED clientVars

---------------------------------------------------------------------------
(* The whole backend, requests of one user *)

Requesters == {"u1"}

Next ==
    \/ \E u \in Requesters : PostFulfill(FulfillBody(u))
    \/ \E u \in Requesters : GetCached(u)
    \/ \E u \in Requesters : ClearUserFeed(u)
    \/ Root
    \/ \E k \in 1..MaxTriggers : RunStart(k)
    \/ \E k \in 1..MaxTriggers, f \in AllFulfillers, o \in {"true", "false", "raise"} :
          IsAvailable(k, f, o)
    \/ \E k \in 1..MaxTriggers, f \in AllFulfillers :
          \E cards \in ForwardResults(f) : ForwardCards(k, f, cards)
    \/ \E k \in 1..MaxTriggers, f \in AllFulfillers : ForwardEmpty(k, f)
    \/ \E k \in 1..MaxTriggers, f \in AllFulfillers : ForwardRaise(k, f)
    \/ \E k \in 1..MaxTriggers : RunFinish(k)
    \/ \E d \in {CACHE_EXPIRY_SECONDS, CACHE_EXPIRY_SECONDS + 1} : Tick(d)

Spec == Init /\ [][Next]_vars

---------------------------------------------------------------------------
(* The orchestrator alone: triggers, background runs and polls of one user *)

NextRuns ==
    \/ \E u \in Requesters : PostFulfill(FulfillBody(u))
    \/ \E u \in Requesters : GetCached(u)
    \/ \E k \in 1..MaxTriggers : RunStart(k)
    \/ \E k \in 1..MaxTriggers, f \in AllFulfillers, o \in {"true", "false", "raise"} :
          IsAvailable(k, f, o)
    \/ \E k \in 1..MaxTriggers, f \in AllFulfillers :
          \E cards \in ForwardResults(f) : ForwardCards(k, f, cards)
    \/ \E k \in 1..MaxTriggers, f \in AllFulfillers : ForwardEmpty(k, f)
    \/ \E k \in 1..MaxTriggers, f \in AllFulfillers : ForwardRaise(k, f)
    \/ \E k \in 1..MaxTriggers : RunFinish(k)

SpecRuns == InitRegistered /\ [][NextRuns]_vars

\* the call that task f of run k is waiting for ends: is_available() returns or raises,
\* forward() returns no card or raises. A forward() that returns cards ends the call too,
\* and then this action is no longer enabled for the task.
CallEnds(k, f) ==
    \/ \E o \in {"true", "false", "raise"} : IsAvailable(k, f, o)
    \/ ForwardEmpty(k, f)
    \/ ForwardRaise(k, f)

\* one card list per fulfiller: what forward() returns has no part in whether a run ends
BackgroundResults(f) ==
    IF f = "Completions"
    THEN {<<Card("COMPLETION", tA), Card("QUESTION", tAup)>>}
    ELSE {<<Card("CONTEXT", tD), Card("QUESTION", tA)>>}

\* triggers and the steps of the background tasks
NextBackground ==
    \/ \E u \in Requesters : PostFulfill(FulfillBody(u))
    \/ \E k \in 1..MaxTriggers : RunStart(k)
    \/ \E k \in 1..MaxTriggers, f \in AllFulfillers, o \in {"true", "false", "raise"} :
          IsAvailable(k, f, o)
    \/ \E k \in 1..MaxTriggers, f \in AllFulfillers :
          \E cards \in BackgroundResults(f) : ForwardCards(k, f, cards)
    \/ \E k \in 1..MaxTriggers, f \in AllFulfillers : ForwardEmpty(k, f)
    \/ \E k \in 1..MaxTriggers, f \in AllFulfillers : ForwardRaise(k, f)
    \/ \E k \in 1..MaxTriggers : RunFinish(k)

\* the event loop runs every queued background task, no is_available() or forward() call
\* stays pending for ever, and gather resumes the run that has all its results
FairRuns ==
    /\ InitRegistered /\ [][NextBackground]_vars
    /\ \A k \in 1..MaxTriggers : WF_vars(RunStart(k)) /\ WF_vars(RunFinish(k))
    /\ \A k \in 1..MaxTriggers, f \in AllFulfillers : WF_vars(CallEnds(k, f))

---------------------------------------------------------------------------
(* Triggers, well-formed and malformed, and the runs they start *)

\* one field missing, one field of a wrong type, or a cursor_position too short
MalformedBodies ==
    {[FulfillBody(u) EXCEPT ![fld] = Absent] : u \in Requesters, fld \in DOMAIN FulfillRequest}
    \cup {[FulfillBody(u) EXCEPT !.cursor_position = Json("string", <<>>)] : u \in Requesters}
    \cup {[FulfillBody(u) EXCEPT !.global_context = Json("string", <<>>)] : u \in Requesters}
    \cup {[FulfillBody(u) EXCEPT !.cursor_position = Json("int_array", c)] :
             u \in Requesters, c \in {<<>>, <<7>>}}

FulfillBodies == {FulfillBody(u) : u \in Requesters} \cup MalformedBodies

NextTrigger ==
    \/ \E body \in FulfillBodies : PostFulfill(body)
    \/ \E k \in 1..MaxTriggers : RunStart(k)
    \/ \E k \in 1..MaxTriggers, f \in AllFulfillers, o \in {"true", "false", "raise"} :
          IsAvailable(k, f, o)
    \/ \E k \in 1..MaxTriggers, f \in AllFulfillers :
          \E cards \in ForwardResults(f) : ForwardCards(k, f, cards)
    \/ \E k \in 1..MaxTriggers, f \in AllFulfillers : ForwardEmpty(k, f)
    \/ \E k \in 1..MaxTriggers, f \in AllFulfillers : ForwardRaise(k, f)
    \/ \E k \in 1..MaxTriggers : RunFinish(k)

SpecTrigger == InitRegistered /\ [][NextTrigger]_vars

---------------------------------------------------------------------------
(* The cache store alone, two users: polls, clears, sweeps and direct merges *)

StoreBatches == {<<Card("CONTEXT", tA), Card("QUESTION", tB)>>}

NextStore ==
    \/ \E u \in Users : GetCached(u)
    \/ \E u \in Users : ClearUserFeed(u)
    \/ Root
    \/ \E u \in Users, b \in StoreBatches : ApplyCards(u, b)
    \/ \E d \in {CACHE_EXPIRY_SECONDS, CACHE_EXPIRY_SECONDS + 1} : Tick(d)

SpecStore == InitRegistered /\ [][NextStore]_vars

---------------------------------------------------------------------------
(* The merge policy alone: any sequence of card lists merged into one cache *)

tABC == <<"a", "b", "c">>
tCDD == <<"c", "d", "d">>

MergeTexts == {tEmpty, tBlank, tA, tAup, tB, tC, tD, tABC, tCDD}

MergeCardSet ==
    {Card("CONTEXT", tx) : tx \in MergeTexts} \cup {Card("QUESTION", tx) : tx \in {tA, tEmpty}}

\* every single card, every card twice in one list, and lists mixing types and lengths
MergeBatches ==
    {<<c>> : c \in MergeCardSet} \cup {<<c, c>> : c \in MergeCardSet}
    \cup {<<Card("CONTEXT", tA), Card("QUESTION", tA)>>,
          <<Card("CONTEXT", tABC), Card("CONTEXT", tCDD)>>,
          <<Card("CONTEXT", tA), Card("CONTEXT", tB), Card("CONTEXT", tC), Card("CONTEXT", tD)>>}

NextMerge == \E b \in MergeBatches : ApplyCards("u1", b)

SpecMerge == InitRegistered /\ [][NextMerge]_vars

---------------------------------------------------------------------------
(* The admission rule alone: single cards of one type merged into one cache *)

tAB == <<"a", "b">>
tBC == <<"b", "c">>

AdmitTexts == {tEmpty, tBlank, tA, tAup, tAB, tBC, tABC, tCDD, tD}

NextAdmit == \E tx \in AdmitTexts : ApplyCards("u1", <<Card("CONTEXT", tx)>>)

SpecAdmit == InitRegistered /\ [][NextAdmit]_vars

---------------------------------------------------------------------------
(* Properties *)

CountOfType(cards, ty) == Len(OfType(cards, ty))

\* C1: single-flight. The background task of a /fulfill request that arrived while the
\* user's processing flag was true dispatches no fulfiller and does not count a request.
C1_SingleFlight ==
    ~(last.op = "start" /\ last.result = "dispatched_late")

\* C2: capacity. After every call of update_user_cache_with_cards every cache holds at
\* most MAX_CARDS_PER_TYPE cards of each type.
C2_Capacity ==
    \A u \in DOMAIN user_caches : \A ty \in CardTypes :
        CountOfType(user_caches[u].cards, ty) <= MAX_CARDS_PER_TYPE

\* a call that met a full type and changed it: the oldest card made room
C2_Witness ==
    /\ applied.user \in DOMAIN user_caches
    /\ CountOfType(applied.before, "CONTEXT") = MAX_CARDS_PER_TYPE
    /\ OfType(user_caches[applied.user].cards, "CONTEXT") # OfType(applied.before, "CONTEXT")
    /\ Len(applied.new_cards) = 1

\* the texts of type ty in new_cards that no card of type ty in before has
NewTexts(before, new_cards, ty) ==
    {new_cards[i].text : i \in {j \in DOMAIN new_cards : new_cards[j].type = ty}}
        \ {before[i].text : i \in {j \in DOMAIN before : before[j].type = ty}}

\* C3: de-duplication. A merge raises the number of cards of a type by at most the number
\* of distinct texts of that type in the incoming list that the cache did not hold: a card
\* whose text is identical to a cached card of its type, or to an earlier card of the
\* list, adds nothing, whatever the text (empty and blank texts too).
C3_Dedup ==
    applied.user \in DOMAIN user_caches =>
        \A ty \in CardTypes :
            CountOfType(user_caches[applied.user].cards, ty)
                <= CountOfType(applied.before, ty)
                   + Cardinality(NewTexts(applied.before, applied.new_cards, ty))

\* a blank card merged into a type that holds the same blank card and has room
C3_Witness ==
    /\ applied.user \in DOMAIN user_caches
    /\ applied.new_cards = <<Card("CONTEXT", tBlank)>>
    /\ \E i \in DOMAIN applied.before : applied.before[i] = Card("CONTEXT", tBlank)
    /\ CountOfType(applied.before, "CONTEXT") = 2
    /\ user_caches[applied.user].cards = applied.before

\* C4: partial failure. A step in which is_available() or forward() raises changes the
\* state of that one task only: its run stays in flight with every sibling task as it
\* was, no other run changes and the cache store is untouched.
C4_PartialFailure ==
    [][last'.result = "raise" =>
          /\ user_caches' = user_caches
          /\ \E k \in DOMAIN runs : \E f \in DOMAIN runs[k].tasks :
                /\ runs[k].tasks[f] \notin {"done", "failed"}
                /\ runs' = [runs EXCEPT ![k].tasks[f] = "failed"]]_vars

\* a fulfiller of a run failed and the cards of its sibling were merged afterwards
C4_Witness ==
    /\ last = Step("forward", "u1", "cards")
    /\ Len(runs) = 1
    /\ runs[1].tasks["Completions"] = "failed"
    /\ runs[1].tasks["CodeSearch"] = "done"
    /\ "u1" \in DOMAIN user_caches
    /\ CountOfType(user_caches["u1"].cards, "CONTEXT") > 0

\* C5: while a fulfiller task dispatched for a user has not completed, /cached answers
\* processing = true for that user.
C5_PollReportsRunning ==
    \A u \in Users :
        PendingTasks(u) # {} => CachedResponse(user_caches, u, now).processing

\* C6: idempotent poll. After a /cached request for a user, and as long as no /fulfill,
\* merge or other background step, clear or sweep touched that user, another /cached
\* request returns the same cards, last_updated and processing.
C6_IdempotentPoll ==
    \A u \in Users :
        polled[u].valid => CachedResponse(user_caches, u, now) = polled[u].body

\* two polls in a row, the first of which created the cache, with time passing between them
C6_Witness ==
    /\ polled["u1"].valid
    /\ polled["u1"].again
    /\ polled["u1"].created
    /\ last = Step("poll", "u1", "existing")
    /\ now > polled["u1"].body.last_updated

\* C7: after a clear, and until the next /fulfill of the user, /cached answers no cards
\* and processing = false.
C7_ClearMakesNew ==
    \A u \in Users :
        cleared[u] =>
            LET r == CachedResponse(user_caches, u, now)
            IN r.cards = <<>> /\ ~r.processing

\* C8: the sweep of GET / removes exactly the caches whose last_updated is more than
\* CACHE_EXPIRY_SECONDS in the past and leaves every other cache as it was.
C8_ExpirySweep ==
    [][last'.op = "root" =>
          /\ DOMAIN user_caches' \subseteq DOMAIN user_caches
          /\ \A u \in DOMAIN user_caches :
                IF now - user_caches[u].last_updated > CACHE_EXPIRY_SECONDS
                THEN u \notin DOMAIN user_caches'
                ELSE u \in DOMAIN user_caches' /\ user_caches'[u] = user_caches[u]]_vars

\* a sweep that removed one user's cache and kept the other's
C8_Witness ==
    /\ last = Step("root", "none", "swept")
    /\ DOMAIN user_caches # {}
    /\ \E u \in DOMAIN user_caches : user_caches[u].cards # <<>>

\* C9: a /fulfill or /cached request never answers with the cards of a cache whose
\* last_updated is more than CACHE_EXPIRY_SECONDS in the past.
C9_SweepOnRead ==
    (last.op \in {"poll", "fulfill"} /\ user_caches[last.user].cards # <<>>)
        => now - user_caches[last.user].last_updated <= CACHE_EXPIRY_SECONDS

\* C10 as stated: a /cached request creates no cache record and changes no record.
C10_PollNoSideEffect ==
    [][last'.op = "poll" =>
          /\ DOMAIN user_caches' = DOMAIN user_caches
          /\ \A u \in DOMAIN user_caches : user_caches'[u] = user_caches[u]]_vars

\* C10: a /cached request for a user without a cache record creates an empty one (no
\* cards, not processing, request_count 0, last_updated the time of the request), so that
\* a clear right after it reports success; it changes no existing record.
C10_PollCreatesOnly ==
    [][/\ last'.op = "poll" =>
             /\ DOMAIN user_caches' = DOMAIN user_caches \cup {last'.user}
             /\ \A u \in DOMAIN user_caches : user_caches'[u] = user_caches[u]
             /\ last'.user \notin DOMAIN user_caches =>
                   user_caches'[last'.user] =
                       [cards |-> <<>>, last_updated |-> now,
                        processing |-> FALSE, request_count |-> 0]
       /\ (last.op = "poll" /\ last'.op = "clear" /\ last'.user = last.user) =>
             last'.result = "success"]_vars

\* a poll that created the cache record of one user, some time after startup, next to
\* the older record of another user
C10_Witness ==
    /\ last = Step("poll", "u1", "created")
    /\ user_caches["u1"] = UserCache(now)
    /\ "u2" \in DOMAIN user_caches
    /\ user_caches["u2"].cards # <<>>
    /\ now > user_caches["u2"].last_updated

C12_ClearReports ==
    [][last'.op = "clear" =>
          /\ response'.status = 200
          /\ IF last'.user \in DOMAIN user_caches
             THEN /\ response'.detail = "success"
                  /\ DOMAIN user_caches' = DOMAIN user_caches \ {last'.user}
                  /\ \A v \in DOMAIN user_caches' : user_caches'[v] = user_caches[v]
             ELSE /\ response'.detail = "not_found"
                  /\ user_caches' = user_caches]_vars

\* a clear that removed the record of one user and left the cards of the other
C12_Witness ==
    /\ last = Step("clear", "u1", "success")
    /\ response.detail = "success"
    /\ "u1" \notin DOMAIN user_caches
    /\ "u2" \in DOMAIN user_caches
    /\ user_caches["u2"].cards # <<>>

\* some field of FulfillRequest is missing or of a wrong type, or cursor_position is an
\* array of fewer than two integers
Malformed(body) ==
    \/ \E fld \in {"user_id", "document_text", "cursor_position", "global_context"} :
          body[fld].type = "absent"
    \/ body.user_id.type # "string"
    \/ body.document_text.type # "string"
    \/ body.cursor_position.type # "int_array"
    \/ body.global_context.type # "object"
    \/ Len(body.cursor_position.items) < 2

Min(a, b) == IF a <= b THEN a ELSE b

\* the length of the longest string that is a substring of both s and t
LCSLen(s, t) ==
    Max({0} \cup {n \in 1..Min(Len(s), Len(t)) :
                     \E i \in 1..(Len(s) - n + 1), j \in 1..(Len(t) - n + 1) :
                         SubSeq(s, i, i + n - 1) = SubSeq(t, j, j + n - 1)})

\* lower-cased and trimmed
Norm(text) == Strip(Lower(text))

\* overlap score of two normalised texts >= 0.5: longest common substring over the length
\* of the shorter text, the score being 0 when the shorter text is empty (line 247)
ScoreAtLeastHalf(x, y) ==
    Min(Len(x), Len(y)) > 0 /\ 2 * LCSLen(x, y) >= Min(Len(x), Len(y))

\* the call merged one card and the list of its type changed: the card was admitted
AdmittedOne ==
    /\ applied.user \in DOMAIN user_caches
    /\ Len(applied.new_cards) = 1
    /\ OfType(user_caches[applied.user].cards, applied.new_cards[1].type)
         # OfType(applied.before, applied.new_cards[1].type)

\* the normalised texts held in the type of the one incoming card before the call
HeldTexts ==
    LET held == OfType(applied.before, applied.new_cards[1].type)
    IN [i \in DOMAIN held |-> Norm(held[i].text)]

C15_FifoEviction ==
    applied.user \in DOMAIN user_caches =>
        LET after == user_caches[applied.user].cards
            before == applied.before
        IN /\ Len(applied.new_cards) = 1 =>
                LET c == applied.new_cards[1]
                    b == OfType(before, c.type)
                    a == OfType(after, c.type)
                IN /\ \A ty \in CardTypes \ {c.type} : OfType(after, ty) = OfType(before, ty)
                   /\ IF is_text_substantially_different(c.text, Texts(b))
                      THEN a = IF Len(b) < MAX_CARDS_PER_TYPE
                               THEN b \o <<c>>
                               ELSE SubSeq(b, 2, Len(b)) \o <<c>>
                      ELSE a = b
           /\ \A ty \in CardTypes :
                LET b == OfType(before, ty)
                    a == OfType(after, ty)
                IN \E n \in 0..Len(b) :
                      /\ Len(a) >= Len(b) - n
                      /\ SubSeq(a, 1, Len(b) - n) = SubSeq(b, n + 1, Len(b))
                      /\ n > 0 => Len(a) = MAX_CARDS_PER_TYPE
                      /\ \A i \in (Len(b) - n + 1)..Len(a) :
                            \E j \in DOMAIN applied.new_cards : applied.new_cards[j] = a[i]

\* one card admitted to a full type: the oldest card is gone, the two younger ones moved
\* up and the new card is last, while the cards of the other type stayed
C15_Witness ==
    /\ applied.user \in DOMAIN user_caches
    /\ Len(applied.new_cards) = 1
    /\ applied.new_cards[1].type = "CONTEXT"
    /\ Len(OfType(applied.before, "CONTEXT")) = MAX_CARDS_PER_TYPE
    /\ Len(OfType(applied.before, "QUESTION")) > 0
    /\ OfType(user_caches[applied.user].cards, "CONTEXT")
         = SubSeq(OfType(applied.before, "CONTEXT"), 2, MAX_CARDS_PER_TYPE)
              \o applied.new_cards

\* the cards stand type by type, QUESTION first, then CONTEXT, then COMPLETION
Grouped(cards) ==
    cards = OfType(cards, "QUESTION") \o OfType(cards, "CONTEXT") \o OfType(cards, "COMPLETION")

\* x can be obtained from y by leaving cards out
IsSubseqOf(x, y) ==
    \E idx \in [DOMAIN x -> DOMAIN y] :
        /\ \A i \in DOMAIN x : y[idx[i]] = x[i]
        /\ \A i, j \in DOMAIN x : i < j => idx[i] < idx[j]

\* the list a of a type after a step against the list b before it: the newest cards of b
\* in their order, then cards in the order one fulfiller returned them
KeepsInsertionOrder(b, a, ty) ==
    \E n \in 0..Len(b) :
        /\ Len(a) >= Len(b) - n
        /\ SubSeq(a, 1, Len(b) - n) = SubSeq(b, n + 1, Len(b))
        /\ \/ Len(a) = Len(b) - n
           \/ \E f \in AllFulfillers : \E cards \in ForwardResults(f) :
                 IsSubseqOf(SubSeq(a, Len(b) - n + 1, Len(a)), OfType(cards, ty))

\* C16: after every step every cache lists its cards grouped by type in the order of the
\* CardType declaration (QUESTION, CONTEXT, COMPLETION), and inside each type in the
\* order of insertion: the surviving cards as they stood, then the cards a merge added, in
\* the order the fulfiller returned them, whichever types arrived first.
C16_CacheOrdering ==
    [][\A u \in DOMAIN user_caches' :
          /\ Grouped(user_caches'[u].cards)
          /\ \A ty \in CardTypes :
                KeepsInsertionOrder(OfType(CardsOf(user_caches, u), ty),
                                    OfType(user_caches'[u].cards, ty), ty)]_vars

\* both fulfillers of a run delivered: the QUESTION card stands first although its list
\* named the COMPLETION card before it, and the CONTEXT cards keep their order
C16_Witness ==
    /\ last = Step("forward", "u1", "cards")
    /\ Len(runs) = 1
    /\ \A f \in AllFulfillers : runs[1].tasks[f] = "done"
    /\ CardsOf(user_caches, "u1")
         = <<Card("QUESTION", tAup), Card("CONTEXT", tA), Card("CONTEXT", tB),
             Card("CONTEXT", tC), Card("COMPLETION", tA)>>

\* C17: whatever the order in which the fulfillers of a run, or of two runs in flight
\* together, complete, every cache holds at most MAX_CARDS_PER_TYPE cards of a type and no
\* two cards of the same type whose overlap score with each other is >= 0.5.
C17_OrderIndependent ==
    \A u \in DOMAIN user_caches : \A ty \in CardTypes :
        LET list == OfType(user_caches[u].cards, ty)
        IN /\ Len(list) <= MAX_CARDS_PER_TYPE
           /\ \A i, j \in DOMAIN list :
                i < j => ~ScoreAtLeastHalf(Norm(list[i].text), Norm(list[j].text))

\* two runs in flight: CodeSearch of the second run delivered its QUESTION card before
\* Completions of the first run delivered a similar one, while CodeSearch of the first
\* run is still running
C17_Witness ==
    /\ Len(runs) = 2
    /\ runs[1].tasks["CodeSearch"] \notin Terminal
    /\ runs[1].tasks["Completions"] = "done"
    /\ runs[2].tasks["CodeSearch"] = "done"
    /\ runs[2].tasks["Completions"] \notin Terminal
    /\ OfType(CardsOf(user_caches, "u1"), "QUESTION") = <<Card("QUESTION", tA)>>
    /\ OfType(CardsOf(user_caches, "u1"), "COMPLETION") = <<Card("COMPLETION", tA)>>

\* C18: when every is_available() and forward() call returns or raises, every run in
\* flight ends: a state follows in which the last run has just finished, no run is in
\* flight and the processing flag of every cache is false, whatever the calls returned.
C18_RunCompletes ==
    (runs # <<>>) ~>
        (/\ runs = <<>>
         /\ last.op = "finish"
         /\ \A u \in DOMAIN user_caches : ~user_caches[u].processing)

\* a run has finished and reset the flag without any of its fulfillers delivering a card
C18_Witness ==
    /\ last = Step("finish", "u1", "attached")
    /\ runs = <<>>
    /\ background = <<>>
    /\ user_caches["u1"].request_count = 1
    /\ ~user_caches["u1"].processing
    /\ user_caches["u1"].cards = <<>>

\* C19: while a fulfiller call of a run is pending, and the cache the run works on has not
\* been cleared or swept, the processing flag of that cache is true.
C19_PendingKeepsFlag ==
    \A k \in DOMAIN runs :
        (runs[k].attached /\ \E f \in DOMAIN runs[k].tasks : runs[k].tasks[f] \notin Terminal)
            => user_caches[runs[k].user].processing

\* C20: a step in which is_available() returns False ends that one task and changes
\* nothing else: the cache store and every other task and run stay as they were. A task
\* that has ended is never called again, forward() is awaited only by a task whose
\* is_available() returned True, and a run finishes as soon as all its tasks have ended,
\* skipped ones included.
C20_UnavailableSkipped ==
    [][/\ (last'.op = "is_available" /\ last'.result = "false") =>
             /\ user_caches' = user_caches
             /\ \E k \in DOMAIN runs : \E f \in DOMAIN runs[k].tasks :
                   /\ runs[k].tasks[f] = "available"
                   /\ runs' = [runs EXCEPT ![k].tasks[f] = "done"]
       /\ last'.op # "finish" =>
             \A k \in DOMAIN runs : \A f \in DOMAIN runs[k].tasks :
                 /\ runs[k].tasks[f] \in Terminal => runs'[k].tasks[f] = runs[k].tasks[f]
                 /\ (runs'[k].tasks[f] = "forward" /\ runs[k].tasks[f] # "forward") =>
                       /\ runs[k].tasks[f] = "available"
                       /\ last' = Step("is_available", runs[k].user, "true")
                 /\ (last'.op = "forward" /\ runs'[k].tasks[f] # runs[k].tasks[f]) =>
                       runs[k].tasks[f] = "forward"
       /\ last'.op = "finish" =>
             \E k \in DOMAIN runs :
                 /\ \A f \in DOMAIN runs[k].tasks : runs[k].tasks[f] \in Terminal
                 /\ runs' = RemoveAt(runs, k)]_vars

\* Completions was unavailable after CodeSearch had delivered its cards: the cards are in
\* the cache, nothing of Completions is, and the run has all its results
C20_Witness ==
    /\ last = Step("is_available", "u1", "false")
    /\ Len(runs) = 1
    /\ user_caches["u1"].request_count = 1
    /\ \A f \in AllFulfillers : runs[1].tasks[f] = "done"
    /\ OfType(user_caches["u1"].cards, "CONTEXT") # <<>>
    /\ OfType(user_caches["u1"].cards, "COMPLETION") = <<>>

---------------------------------------------------------------------------
(* SuggestionTracker: the calls *)

\* is_deleted (lines 59-71)
is_deleted(tracker, header, content) ==
    _make_key(header, content) \in tracker.deleted_suggestions

Bool(b) == IF b THEN "True" ELSE "False"

\* mark_deleted (lines 46-57): add the key, then _save; written says whether the file
\* could be written
mark_deleted(header, content, written) ==
    /\ suggestion_tracker.alive
    /\ LET deleted == suggestion_tracker.deleted_suggestions \cup {_make_key(header, content)}
       IN /\ suggestion_tracker' = [suggestion_tracker EXCEPT !.deleted_suggestions = deleted]
          /\ storage_file' = _save(storage_file, deleted, written)
    /\ call' = ClientCall("mark_deleted", <<header, content>>, "None")
    /\ history' = [history EXCEPT !.marked = @ \cup {<<header, content>>}]
    /\ UNCHANGED <<serverVars, query_cache, feed_handler>>

\* clear_all (lines 87-90)
clear_all(written) ==
    /\ suggestion_tracker.alive
    /\ suggestion_tracker' = [suggestion_tracker EXCEPT !.deleted_suggestions = {}]
    /\ storage_file' = _save(storage_file, {}, written)
    /\ call' = ClientCall("clear_all", <<>>, "None")
    /\ history' = [history EXCEPT !.marked = {}]
    /\ UNCHANGED <<serverVars, query_cache, feed_handler>>

\* a call of is_deleted and what it returns
IsDeleted(header, content) ==
    /\ suggestion_tracker.alive
    /\ call' = ClientCall("is_deleted", <<header, content>>,
                          Bool(is_deleted(suggestion_tracker, header, content)))
    /\ UNCHANGED <<serverVars, storage_file, suggestion_tracker, query_cache, feed_handler,
                   history>>

\* SuggestionTracker() in a newly started editor: the instance that was running is gone.
\* Nothing is expected to be left of the marks when the file is missing or damaged.
NewSuggestionTracker ==
    /\ suggestion_tracker' = _load(storage_file)
    /\ call' = ClientCall("SuggestionTracker", <<>>,
                          IF LoadError(storage_file) = "none" THEN "None"
                          ELSE LoadError(storage_file))
    /\ history' = [history EXCEPT !.marked = IF storage_file.kind = "object" THEN @ ELSE {}]
    /\ UNCHANGED <<serverVars, storage_file, query_cache, feed_handler>>

\* something other than the tracker removes, truncates or overwrites the storage file
Damage(kind) ==
    /\ kind \in {"missing", "not_json", "not_object", "not_utf8"}
    /\ storage_file' = File(kind, <<>>)
    /\ call' = ClientCall("damage", <<kind>>, "None")
    /\ UNCHANGED <<serverVars, suggestion_tracker, query_cache, feed_handler, history>>

\* headers and contents of the model: the separator's character occurs in them
TrackerTexts == {<<>>, <<"a">>, <<"|">>}

\* one tracker, its file always writable
NextTracker ==
    \/ \E h \in TrackerTexts, c \in TrackerTexts : mark_deleted(h, c, TRUE)
    \/ clear_all(TRUE)
    \/ \E h \in TrackerTexts, c \in TrackerTexts : IsDeleted(h, c)

SpecTracker == InitRegistered /\ [][NextTracker]_vars

\* trackers that come and go on a storage file that may be damaged or read-only
StorageTexts == {<<>>, <<"a">>}

NextStorage ==
    \/ \E c \in StorageTexts, w \in BOOLEAN : mark_deleted(<<"a">>, c, w)
    \/ \E w \in BOOLEAN : clear_all(w)
    \/ NewSuggestionTracker
    \/ \E kind \in {"missing", "not_json", "not_object", "not_utf8"} : Damage(kind)

SpecStorage == InitRegistered /\ [][NextStorage]_vars

---------------------------------------------------------------------------
(* Properties of the client *)

\* C22: after any sequence of mark_deleted and clear_all calls on a tracker, a call of
\* is_deleted(h, c) returns True exactly when mark_deleted was called with that header h and
\* that content c since the last clear_all: a pair that was not marked does not share its
\* key with one that was.
C22_Membership ==
    call.op = "is_deleted" =>
        (call.result = "True" <=> <<call.args[1], call.args[2]>> \in history.marked)

\* C23: a new SuggestionTracker opened on the storage file is constructed without an error
\* and holds exactly the keys of the suggestions that earlier trackers marked deleted and
\* did not clear; when the file is missing or damaged it holds no key.
C23_RoundTrip ==
    call.op = "SuggestionTracker" =>
        /\ call.result = "None"
        /\ suggestion_tracker.alive
        /\ suggestion_tracker.deleted_suggestions =
              {_make_key(pair[1], pair[2]) : pair \in history.marked}

---------------------------------------------------------------------------
(* QueryCache and cached_predictor *)

Keys(items) == {items[i].key : i \in DOMAIN items}

\* the items with this key left out
Without(items, key) == SelectSeq(items, LAMBDA item : item.key # key)

\* self._cache[key]
ValueOf(items, key) == (CHOOSE i \in DOMAIN items : items[i].key = key)

\* OrderedDict.move_to_end(key)
move_to_end(items, key) == Without(items, key) \o <<items[ValueOf(items, key)]>>

\* get (lines 51-65): the cache after the call
AfterGet(cache, key) ==
    IF key \in Keys(cache._cache)
    THEN [cache EXCEPT !._cache = move_to_end(@, key)]
    ELSE cache

\* get (lines 51-65): what the call returns
GetReturns(cache, key) ==
    IF key \in Keys(cache._cache)
    THEN cache._cache[ValueOf(cache._cache, key)].value
    ELSE "None"

\* popitem(last=False)
popitem(items) == Tail(items)

\* a put that evicts the entry it has just added
AfterPutEvictsNewest(cache, key, value) ==
    IF key \in Keys(cache._cache)
    THEN [cache EXCEPT !._cache = move_to_end(@, key)]
    ELSE LET added == Append(cache._cache, [key |-> key, value |-> value])
         IN [cache EXCEPT !._cache =
                IF Len(added) > cache._max_size
                THEN SubSeq(added, 1, Len(added) - 1)
                ELSE added]

\* put (lines 67-83): a key that is present is moved to the end and keeps its value
AfterPut(cache, key, value) ==
    IF key \in Keys(cache._cache)
    THEN [cache EXCEPT !._cache = move_to_end(@, key)]
    ELSE LET added == Append(cache._cache, [key |-> key, value |-> value])
         IN [cache EXCEPT !._cache =
                IF Len(added) > cache._max_size THEN popitem(added) ELSE added]

\* the keys in the order of their last touch, restricted to the keys the cache holds
Touched(touched, key, held) ==
    SelectSeq(SelectSeq(touched, LAMBDA k : k # key) \o <<key>>, LAMBDA k : k \in held)

get(key) ==
    /\ query_cache' = AfterGet(query_cache, key)
    /\ call' = ClientCall("get", <<key>>, GetReturns(query_cache, key))
    /\ history' = [history EXCEPT !.touched =
                      IF key \in Keys(query_cache._cache)
                      THEN Touched(@, key, Keys(query_cache'._cache))
                      ELSE @]
    /\ UNCHANGED <<serverVars, storage_file, suggestion_tracker, feed_handler>>

put(key, value) ==
    /\ query_cache' = AfterPut(query_cache, key, value)
    /\ call' = ClientCall("put", <<key, value>>, "None")
    /\ history' = [history EXCEPT
                      !.touched = Touched(@, key, Keys(query_cache'._cache)),
                      !.evicted = LET gone == Keys(query_cache._cache) \ Keys(query_cache'._cache)
                                  IN IF gone = {} THEN "none" ELSE CHOOSE k \in gone : TRUE]
    /\ UNCHANGED <<serverVars, storage_file, suggestion_tracker, feed_handler>>

\* clear (lines 85-87)
clear ==
    /\ query_cache' = [query_cache EXCEPT !._cache = <<>>]
    /\ call' = ClientCall("clear", <<>>, "None")
    /\ history' = [history EXCEPT !.touched = <<>>, !.evicted = "none"]
    /\ UNCHANGED <<serverVars, storage_file, suggestion_tracker, feed_handler>>

CacheKeys == {"k1", "k2", "k3"}
CacheValues == {"v1", "v2"}

NextCache ==
    \/ \E key \in CacheKeys : get(key)
    \/ \E key \in CacheKeys, value \in CacheValues : put(key, value)
    \/ clear

SpecCache == InitRegistered /\ [][NextCache]_vars

\* an argument of the predictor: a string, or a tuple or a list of one string
Arg(type, value) == [type |-> type, value |-> value]

PredictorArgs == {Arg("str", "a"), Arg("tuple", "a"), Arg("list", "a")}

\* json.dumps (line 47) writes a tuple and a list as the same array
JsonDumps(arg) == IF arg.type = "str" THEN <<"str", arg.value>> ELSE <<"array", arg.value>>

\* QueryCache._make_key (lines 30-49); sha256 is taken to be injective, so the key is
\* the JSON text itself
make_key(arg) == JsonDumps(arg)

\* what the predictor may return when it is invoked
PredictorResults == {"r1", "r2", "None"}

\* wrapper (lines 116-131): result is what the predictor returns if it is invoked
wrapper(arg, result) ==
    LET cache_key == make_key(arg)
        cached_result == GetReturns(query_cache, cache_key)
        looked_up == AfterGet(query_cache, cache_key)
        returned == IF cached_result # "None" THEN cached_result ELSE result
    IN /\ query_cache' = IF cached_result # "None" THEN looked_up
                         ELSE AfterPut(looked_up, cache_key, result)
       /\ call' = ClientCall("wrapper", <<arg>>, returned)
       /\ history' = [history EXCEPT
                         !.invoked = (cached_result = "None"),
                         !.first = IF arg \in DOMAIN @ THEN @ ELSE (arg :> returned) @@ @,
                         !.kept = IF arg \in DOMAIN @ \/ returned = "None" THEN @
                                  ELSE (arg :> returned) @@ @]
       /\ UNCHANGED <<serverVars, storage_file, suggestion_tracker, feed_handler>>

\* calls of the wrapped predictor; two keys at most, so that nothing is evicted
NextPredictor == \E arg \in PredictorArgs, result \in PredictorResults : wrapper(arg, result)

SpecPredictor == InitRegistered /\ [][NextPredictor]_vars

\* C24: the cache never holds more than max_size entries, and a put of a key that is not in
\* a full cache removes exactly one entry, the one whose last touch by a get that found it
\* or by a put is the oldest, and adds the new key.
C24_BoundedLRU ==
    [][/\ Len(query_cache'._cache) <= query_cache'._max_size
       /\ (/\ call'.op = "put"
           /\ call'.args[1] \notin Keys(query_cache._cache)
           /\ Len(query_cache._cache) = query_cache._max_size)
          => /\ Keys(query_cache'._cache) =
                   (Keys(query_cache._cache) \ {history.touched[1]}) \cup {call'.args[1]}
             /\ Len(query_cache'._cache) = query_cache._max_size]_vars

\* a put of k3 into a full cache has evicted k2 and kept k1, which was touched later
C24_Witness ==
    /\ call = ClientCall("put", <<"k3", "v1">>, "None")
    /\ history.evicted = "k2"
    /\ Len(query_cache._cache) = query_cache._max_size
    /\ query_cache._cache[1].key = "k1"
    /\ query_cache._cache[2].key = "k3"

\* C25: a get(k) that follows put(k, v), nothing having been evicted or cleared in between,
\* returns v, whether k was absent or present with another value before the put.
C25_PutThenGet ==
    [][(call.op = "put" /\ call'.op = "get" /\ call'.args[1] = call.args[1])
          => call'.result = call.args[2]]_vars

\* C26: a call of the wrapped predictor with arguments that an earlier call had (nothing is
\* evicted or cleared here) does not invoke the predictor and returns what that earlier call
\* returned, at least when that was a value other than None; a call whose arguments differ,
\* in their JSON text too, from those of every earlier call invokes the predictor.
C26_CachedOnce ==
    [][call'.op = "wrapper" =>
          LET arg == call'.args[1]
          IN /\ arg \in DOMAIN history.kept
                   => ~history'.invoked /\ call'.result = history.kept[arg]
             /\ JsonDumps(arg) \notin {JsonDumps(a) : a \in DOMAIN history.first}
                   => history'.invoked]_vars

---------------------------------------------------------------------------
(* FeedHandler *)

\* CardType(card_data["type"])
CardTypeOf(value) == CHOOSE t \in CardTypes : TypeValue(t) = value

\* the backend of the model carries no header: its fulfillers give every card the name of
\* its type as header
HeaderOf(card_data) == <<card_data.type>>

\* Card(header=..., text=..., type=CardType(...)) built from an item of the JSON response
\* (lines 238-245 and 308-315)
CardFromJson(card_data) ==
    [header |-> HeaderOf(card_data), text |-> card_data.text, type |-> CardTypeOf(card_data.type)]

CardsFromJson(cards) == [i \in DOMAIN cards |-> CardFromJson(cards[i])]

\* _update_ui_with_cards (lines 345-367)
_update_ui_with_cards(h, cards) ==
    LET completion_cards == SelectSeq(cards, LAMBDA c : c.type = "COMPLETION")
        feed_cards == SelectSeq(cards, LAMBDA c : c.type \in {"QUESTION", "CONTEXT", "MATH", "EMAIL"})
    IN [h EXCEPT !.feed_items = cards,
                 !.ghost_text = IF completion_cards # <<>> THEN completion_cards[1].text ELSE @,
                 !._last_completion_triggered = IF completion_cards # <<>> THEN TRUE ELSE @,
                 !.ai_feed = feed_cards]

\* _start_polling (lines 269-279): a polling task that is running is cancelled and a new
\* one takes its place
_start_polling(h) == [h EXCEPT !._stop_polling = FALSE, !._polling_task = "running"]

Pending(task) == task.state \in {"sleeping", "requesting"}

Abs(n) == IF n < 0 THEN 0 - n ELSE n

\* a counter that adds the signed difference
CountSigned(h, new_content) == h.char_count + (Len(new_content) - Len(h.last_content))

\* lines 165-166
Count(h, new_content) == h.char_count + Abs(Len(new_content) - Len(h.last_content))

\* a text change that does not consume the mark of mark_ghost_text_change
on_text_change_keeps_mark(h, new_content, from_ghost_text) ==
    IF from_ghost_text \/ h._ignoring_next_change
    THEN [h EXCEPT !.last_content = new_content]
    ELSE LET count == Count(h, new_content)
         IN [h EXCEPT
                !._last_completion_triggered = FALSE,
                !._update_in_progress = IF h._idle_task.state = "requesting" THEN FALSE ELSE @,
                !.char_count = count,
                !.last_content = new_content,
                !._idle_task = IF count >= h.threshold THEN Task("sleeping", new_content)
                               ELSE IF Pending(@) THEN Task("cancelled", @.document_text)
                               ELSE @]

\* a text change that leaves the pending idle timer as it is
on_text_change_keeps_timer(h, new_content, from_ghost_text) ==
    IF from_ghost_text \/ h._ignoring_next_change
    THEN [h EXCEPT !._ignoring_next_change = FALSE, !.last_content = new_content]
    ELSE LET count == Count(h, new_content)
         IN [h EXCEPT
                !._last_completion_triggered = FALSE,
                !.char_count = count,
                !.last_content = new_content,
                !._idle_task = IF Pending(@) THEN @
                               ELSE IF count >= h.threshold THEN Task("sleeping", new_content)
                               ELSE @]

\* on_text_change (lines 134-179). Cancelling the idle task while it is inside
\* _trigger_update_async runs that call's finally clause (line 412).
on_text_change(h, new_content, from_ghost_text) ==
    IF from_ghost_text \/ h._ignoring_next_change
    THEN [h EXCEPT !._ignoring_next_change = FALSE, !.last_content = new_content]
    ELSE LET count == Count(h, new_content)
         IN [h EXCEPT
                !._last_completion_triggered = FALSE,
                !._update_in_progress = IF h._idle_task.state = "requesting" THEN FALSE ELSE @,
                !.char_count = count,
                !.last_content = new_content,
                !._idle_task = IF count >= h.threshold THEN Task("sleeping", new_content)
                               ELSE IF Pending(@) THEN Task("cancelled", @.document_text)
                               ELSE @]

\* the counter is left as it is after the trigger
AfterTriggerKeepsCount(h) == [h EXCEPT !._idle_task.state = "done"]

\* _wait_and_trigger_idle after the await of _trigger_update_async (lines 193-194)
AfterTrigger(h) == [h EXCEPT !.char_count = 0, !._idle_task.state = "done"]

\* a failed call that shows and remembers an empty list
ReceivedClears(h, all_cards) ==
    LET cards == IF all_cards = <<>> THEN <<>> ELSE all_cards[1]
    IN [_update_ui_with_cards([h EXCEPT !._last_successful_cards = cards], cards)
           EXCEPT !._update_in_progress = FALSE]

\* _trigger_update_async once _call_backend has returned (lines 390-413); all_cards is
\* <<>> for None, when the call failed, and <<cards>> for a list of cards
Received(h, all_cards) ==
    LET cards == IF all_cards = <<>> THEN h._last_successful_cards ELSE all_cards[1]
        kept == IF all_cards = <<>> THEN h
                ELSE [h EXCEPT !._last_successful_cards = all_cards[1]]
        shown == IF cards = <<>> THEN kept ELSE _update_ui_with_cards(kept, cards)
    IN [shown EXCEPT !._update_in_progress = FALSE]

\* what the editor may hold
Contents == {<<>>, <<"x">>, <<"x", "y">>}

\* the counter of the model stops here
MaxCount == 2 * Threshold

\* the user makes at most this many changes in a row and then pauses until the update that
\* the pause starts has ended
MaxBurst == 3

\* the user edits the text
UserTypes(new_content) ==
    /\ triggers < MaxTriggers
    /\ history.burst < MaxBurst
    /\ Count(feed_handler, new_content) <= MaxCount
    /\ feed_handler' = on_text_change(feed_handler, new_content, FALSE)
    /\ call' = ClientCall("on_text_change", <<new_content, FALSE>>, "None")
    /\ history' = [history EXCEPT
                      !.typed = IF feed_handler._ignoring_next_change THEN @
                                ELSE @ + Abs(Len(new_content) - Len(history.content)),
                      !.content = new_content,
                      !.burst = @ + 1]
    /\ UNCHANGED <<serverVars, storage_file, suggestion_tracker, query_cache>>

\* ghost text is applied to or removed from the text: on_text_change(..., from_ghost_text=True)
GhostTextChange(new_content) ==
    /\ feed_handler' = on_text_change(feed_handler, new_content, TRUE)
    /\ call' = ClientCall("on_text_change", <<new_content, TRUE>>, "None")
    /\ history' = [history EXCEPT !.content = new_content]
    /\ UNCHANGED <<serverVars, storage_file, suggestion_tracker, query_cache>>

\* mark_ghost_text_change (lines 129-132)
mark_ghost_text_change ==
    /\ feed_handler' = [feed_handler EXCEPT !._ignoring_next_change = TRUE]
    /\ call' = ClientCall("mark_ghost_text_change", <<>>, "None")
    /\ UNCHANGED <<serverVars, storage_file, suggestion_tracker, query_cache, history>>

\* reset_counter (lines 448-450)
reset_counter ==
    /\ feed_handler' = [feed_handler EXCEPT !.char_count = 0]
    /\ call' = ClientCall("reset_counter", <<>>, "None")
    /\ history' = [history EXCEPT !.typed = 0]
    /\ UNCHANGED <<serverVars, storage_file, suggestion_tracker, query_cache>>

\* asyncio.sleep(idle_timeout) returns: _trigger_update_async starts (lines 190-192 and
\* 378-388) and sends the request, unless an update is in progress
IdleElapsed ==
    /\ feed_handler._idle_task.state = "sleeping"
    /\ feed_handler' =
          IF feed_handler._update_in_progress
          THEN AfterTrigger(feed_handler)
          ELSE [feed_handler EXCEPT !._update_in_progress = TRUE,
                                    !._idle_task.state = "requesting"]
    /\ call' = ClientCall("_wait_and_trigger_idle", <<>>, "None")
    /\ history' = IF feed_handler._update_in_progress
                   THEN [history EXCEPT !.typed = 0, !.burst = 0]
                   ELSE history
    /\ UNCHANGED <<serverVars, storage_file, suggestion_tracker, query_cache>>

\* POST /fulfill is answered with 200 (lines 232-254), the update ends and the counter is
\* reset
TriggerResponse ==
    /\ feed_handler._idle_task.state = "requesting"
    /\ request' = FulfillBody(feed_handler.user_id)
    /\ Fulfill(feed_handler.user_id)
    /\ LET cards == CardsFromJson(response'.cards)
           polling == IF response'.processing THEN _start_polling(feed_handler)
                      ELSE feed_handler
       IN feed_handler' = AfterTrigger(Received(polling, <<cards>>))
    /\ call' = ClientCall("_trigger_update_async", <<"200">>, "None")
    /\ history' = [history EXCEPT !.typed = 0, !.burst = 0]
    /\ UNCHANGED <<storage_file, suggestion_tracker, query_cache>>

\* the request times out or the backend cannot be reached (lines 259-264): polling starts,
\* the last successful cards are shown again and the counter is reset
CallBackendFails ==
    /\ feed_handler._idle_task.state = "requesting"
    /\ feed_handler' = AfterTrigger(Received(_start_polling(feed_handler), <<>>))
    /\ call' = ClientCall("_trigger_update_async", <<"timeout">>, "None")
    /\ history' = [history EXCEPT !.typed = 0, !.burst = 0]
    /\ UNCHANGED <<serverVars, storage_file, suggestion_tracker, query_cache>>

\* the backend answers with another status than 200 (lines 255-257), or the request raises
\* another exception than a timeout or a connection error (lines 265-267): no polling
CallBackendRefused(kind) ==
    /\ feed_handler._idle_task.state = "requesting"
    /\ kind \in {"status", "error"}
    /\ feed_handler' = AfterTrigger(Received(feed_handler, <<>>))
    /\ call' = ClientCall("_trigger_update_async", <<kind>>, "None")
    /\ history' = [history EXCEPT !.typed = 0, !.burst = 0]
    /\ UNCHANGED <<serverVars, storage_file, suggestion_tracker, query_cache>>

\* one round of _poll_cached (lines 290-338) answered with 200
PollCached ==
    /\ feed_handler._polling_task = "running"
    /\ ~feed_handler._stop_polling
    /\ get_cached(feed_handler.user_id)
    /\ LET shown == _update_ui_with_cards(feed_handler, CardsFromJson(response'.cards))
       IN feed_handler' = IF response'.processing THEN shown
                          ELSE [shown EXCEPT !._polling_task = "done"]
    /\ call' = ClientCall("_poll_cached", <<>>, Bool(response'.processing))
    /\ UNCHANGED <<storage_file, suggestion_tracker, query_cache, history>>

\* :dd on the feed (app.py 218-229): the widget removes the selected box and the handler
\* marks its header and content as deleted (lines 461-469)
DeleteSelected(selected_index, written) ==
    /\ selected_index \in DOMAIN feed_handler.ai_feed
    /\ suggestion_tracker.alive
    /\ LET box == feed_handler.ai_feed[selected_index]
           deleted == suggestion_tracker.deleted_suggestions
                         \cup {_make_key(box.header, box.text)}
       IN /\ feed_handler' = [feed_handler EXCEPT !.ai_feed = RemoveAt(@, selected_index)]
          /\ suggestion_tracker' = [suggestion_tracker EXCEPT !.deleted_suggestions = deleted]
          /\ storage_file' = _save(storage_file, deleted, written)
          /\ call' = ClientCall("mark_suggestion_deleted", <<box.header, box.text>>, "None")
          /\ history' = [history EXCEPT !.marked = @ \cup {<<box.header, box.text>>}]
    /\ UNCHANGED <<serverVars, query_cache>>

\* cards pushed by hand
PushedCards ==
    {[header |-> <<"h">>, text |-> tA, type |-> "CONTEXT"],
     [header |-> <<"h">>, text |-> tB, type |-> "QUESTION"]}

MaxFeed == 3

\* push_card (lines 415-429); position is <<>> for None and <<n>> for the index n
push_card(card, position) ==
    /\ Len(feed_handler.feed_items) < MaxFeed
    /\ LET items == feed_handler.feed_items
           pushed == IF position = <<>> THEN Append(items, card)
                     ELSE IF position[1] >= Len(items) THEN Append(items, card)
                     ELSE IF position[1] >= 0
                          THEN SubSeq(items, 1, position[1]) \o <<card>>
                                  \o SubSeq(items, position[1] + 1, Len(items))
                          ELSE LET at == IF Len(items) + position[1] < 0 THEN 0
                                         ELSE Len(items) + position[1]
                               IN SubSeq(items, 1, at) \o <<card>>
                                     \o SubSeq(items, at + 1, Len(items))
       IN feed_handler' = [feed_handler EXCEPT !.feed_items = pushed, !.ai_feed = pushed]
    /\ call' = ClientCall("push_card", <<card, position>>, "None")
    /\ UNCHANGED <<serverVars, storage_file, suggestion_tracker, query_cache, history>>

\* a delete_item that hands any index below the length to list.pop
PopsAt(items, index) ==
    IF index < Len(items) /\ 0 - Len(items) <= index
    THEN IF index >= 0 THEN index + 1 ELSE Len(items) + index + 1
    ELSE 0

\* the position, counted from 1, that delete_item(index) removes; 0 when it removes none
\* (line 441)
Pops(items, index) == IF 0 <= index /\ index < Len(items) THEN index + 1 ELSE 0

\* delete_item (lines 431-446)
delete_item(index) ==
    /\ LET at == Pops(feed_handler.feed_items, index)
       IN IF at # 0
          THEN /\ feed_handler' = [feed_handler EXCEPT
                                      !.feed_items = RemoveAt(@, at),
                                      !.ai_feed = RemoveAt(feed_handler.feed_items, at)]
               /\ call' = ClientCall("delete_item", <<index>>, "True")
          ELSE /\ feed_handler' = feed_handler
               /\ call' = ClientCall("delete_item", <<index>>, "False")
    /\ UNCHANGED <<serverVars, storage_file, suggestion_tracker, query_cache, history>>

\* the handler with the backend out of reach
NextHandler ==
    \/ \E content \in Contents : UserTypes(content)
    \/ \E content \in Contents : GhostTextChange(content)
    \/ mark_ghost_text_change
    \/ reset_counter
    \/ IdleElapsed
    \/ CallBackendFails

SpecHandler == InitRegistered /\ [][NextHandler]_vars

\* the feed edited by hand
NextFeed ==
    \/ \E card \in PushedCards, position \in {<<>>, <<-1>>, <<0>>, <<1>>, <<5>>} : push_card(card, position)
    \/ \E index \in -4..4 : delete_item(index)

SpecFeed == InitRegistered /\ [][NextFeed]_vars

\* the user types, pauses, and the backend answers or cannot be reached
NextTyping ==
    \/ \E content \in Contents : UserTypes(content)
    \/ IdleElapsed
    \/ TriggerResponse
    \/ CallBackendFails

\* the request made by _call_backend ends: it is answered, or it times out after 10 s
CallBackendEnds == TriggerResponse \/ CallBackendFails

\* the sleep of an idle task that is not cancelled returns, and a request that is not
\* cancelled ends; the user pauses after MaxBurst changes at most
FairHandler ==
    /\ InitRegistered /\ [][NextTyping]_vars
    /\ WF_vars(IdleElapsed)
    /\ WF_vars(CallBackendEnds)

---------------------------------------------------------------------------
(* Properties of the handler *)

C28_Counter ==
    /\ feed_handler.char_count = history.typed
    /\ feed_handler.last_content = history.content
    /\ call.op = "on_text_change" => feed_handler.last_content = call.args[1]
    /\ call.op = "reset_counter" => feed_handler.char_count = 0

\* two characters typed and one deleted: three characters counted
C28_Witness ==
    /\ call = ClientCall("on_text_change", <<<<"x">>, FALSE>>, "None")
    /\ feed_handler.char_count = 3
    /\ feed_handler.last_content = <<"x">>

\* C29: delete_item(index) returns True and removes the item at that index, the others
\* keeping their order, when 0 <= index < len(feed_items); for every other index, negative
\* ones included, it returns False and leaves feed_items and the widget as they were.
C29_DeleteItem ==
    [][call'.op = "delete_item" =>
          LET index == call'.args[1]
              items == feed_handler.feed_items
          IN IF 0 <= index /\ index < Len(items)
             THEN /\ call'.result = "True"
                  /\ feed_handler'.feed_items =
                        SubSeq(items, 1, index) \o SubSeq(items, index + 2, Len(items))
                  /\ feed_handler'.ai_feed = feed_handler'.feed_items
             ELSE /\ call'.result = "False"
                  /\ feed_handler'.feed_items = items
                  /\ feed_handler'.ai_feed = feed_handler.ai_feed]_vars

\* delete_item(-1) has refused to touch a feed of two different cards
C29_Witness ==
    /\ call = ClientCall("delete_item", <<-1>>, "False")
    /\ Len(feed_handler.feed_items) = 2
    /\ feed_handler.feed_items[1] # feed_handler.feed_items[2]

---------------------------------------------------------------------------
(* The editor and the backend together *)

\* the user types or deletes a whole burst of text at a time
Bursts == {<<>>, <<"x", "y">>}

\* the user deletes one suggestion in the feed
DeleteOne(selected_index) == history.marked = {} /\ DeleteSelected(selected_index, TRUE)

\* the editor of user u1 against the backend: typing, triggers, polls, the deletion of one
\* suggestion in the feed, and the background runs
NextClient ==
    \/ \E content \in Bursts : UserTypes(content)
    \/ IdleElapsed
    \/ TriggerResponse
    \/ PollCached
    \/ \E i \in 1..(2 * MAX_CARDS_PER_TYPE) : DeleteOne(i)
    \/ \E k \in 1..MaxTriggers : RunStart(k)
    \/ \E k \in 1..MaxTriggers, f \in AllFulfillers, o \in {"true", "false", "raise"} :
          IsAvailable(k, f, o)
    \/ \E k \in 1..MaxTriggers, f \in AllFulfillers :
          \E cards \in ForwardResults(f) : ForwardCards(k, f, cards)
    \/ \E k \in 1..MaxTriggers, f \in AllFulfillers : ForwardEmpty(k, f)
    \/ \E k \in 1..MaxTriggers, f \in AllFulfillers : ForwardRaise(k, f)
    \/ \E k \in 1..MaxTriggers : RunFinish(k)

SpecClient == InitRegistered /\ [][NextClient]_vars

\* C21: a suggestion that was deleted in the feed, and so passed to
\* mark_suggestion_deleted, is not displayed again: no box of the feed widget has the header
\* and the content of a suggestion marked as deleted.
C21_NotResurfaced ==
    \A i \in DOMAIN feed_handler.ai_feed :
        <<feed_handler.ai_feed[i].header, feed_handler.ai_feed[i].text>> \notin history.marked

\* the editor and the backend without deletions in the feed
NextEndToEnd ==
    \/ \E content \in Bursts : UserTypes(content)
    \/ IdleElapsed
    \/ TriggerResponse
    \/ PollCached
    \/ \E k \in 1..MaxTriggers : RunStart(k)
    \/ \E k \in 1..MaxTriggers, f \in AllFulfillers, o \in {"true", "false", "raise"} :
          IsAvailable(k, f, o)
    \/ \E k \in 1..MaxTriggers, f \in AllFulfillers :
          \E cards \in ForwardResults(f) : ForwardCards(k, f, cards)
    \/ \E k \in 1..MaxTriggers, f \in AllFulfillers : ForwardEmpty(k, f)
    \/ \E k \in 1..MaxTriggers, f \in AllFulfillers : ForwardRaise(k, f)
    \/ \E k \in 1..MaxTriggers : RunFinish(k)

\* every producer terminates and every run starts and finishes, as in FairRuns; the idle
\* timer elapses, the request of a trigger is answered, and the polling loop polls again
\* every 3 seconds while it runs
FairClient ==
    /\ InitRegistered /\ [][NextEndToEnd]_vars
    /\ \A k \in 1..MaxTriggers : WF_vars(RunStart(k)) /\ WF_vars(RunFinish(k))
    /\ \A k \in 1..MaxTriggers, f \in AllFulfillers : WF_vars(CallEnds(k, f))
    /\ WF_vars(IdleElapsed)
    /\ WF_vars(TriggerResponse)
    /\ WF_vars(PollCached)

\* the cards the editor would build from the cache the backend holds for its user
ServerFeed == CardsFromJson(CardResponses(CardsOf(user_caches, feed_handler.user_id)))

\* C30: after a trigger whose producers all terminate, the polling loop of the editor stops,
\* and from then on the feed it shows is the final cache of the backend for its user, with
\* every card the runs merged.
C30_Convergence ==
    <>[](triggers > 0 =>
            /\ feed_handler._polling_task # "running"
            /\ feed_handler.feed_items = ServerFeed)

---------------------------------------------------------------------------
(* Concurrent producers of one user *)

\* C31: merges of the producers of one user are atomic with respect to each other: every
\* producer that completes with cards leaves the cache equal to the merge policy applied
\* to the whole cache the previous merges left and its own card list, so the cache is
\* always the result of applying the card lists one after another in the order of
\* completion, and no card an earlier merge admitted is lost to a later one.
C31_AtomicMerge ==
    [][(last'.op = "forward" /\ last'.result = "cards") =>
          \E f \in AllFulfillers : \E cards \in ForwardResults(f) :
              CardsOf(user_caches', last'.user) =
                  MergeCards(CardsOf(user_caches, last'.user), cards)]_vars

\* both producers of one run have completed with cards, the second one while the cards of
\* the first were in the cache: the cache holds the cards of both
C31_Witness ==
    /\ last = Step("forward", "u1", "cards")
    /\ Len(runs) = 1
    /\ \A f \in AllFulfillers : runs[1].tasks[f] = "done"
    /\ OfType(CardsOf(user_caches, "u1"), "COMPLETION") = <<Card("COMPLETION", tA)>>
    /\ OfType(CardsOf(user_caches, "u1"), "CONTEXT") =
          <<Card("CONTEXT", tA), Card("CONTEXT", tB), Card("CONTEXT", tC)>>

---------------------------------------------------------------------------
(* Polls during a run *)

\* a run of user u in which one producer has completed and a sibling is still running
MidRun(u) ==
    \E k \in RunsOf(u) :
        /\ \E f \in DOMAIN runs[k].tasks : runs[k].tasks[f] = "done"
        /\ \E g \in DOMAIN runs[k].tasks : runs[k].tasks[g] \notin Terminal

\* C32: incremental visibility: once a producer of a run has completed with cards, a poll
\* made while a sibling producer is still running returns the cards of the cache that
\* merge left, with processing still true: neither the merge nor the poll waits for the
\* other producers.
C32_IncrementalVisibility ==
    [][(/\ last.op = "forward" /\ last.result = "cards"
        /\ last'.op = "poll" /\ last'.user = last.user
        /\ MidRun(last.user)) =>
          /\ response'.cards = CardResponses(CardsOf(user_caches, last.user))
          /\ response'.cards # <<>>
          /\ response'.processing]_vars

\* the part of C32 that does not depend on the processing flag
C32_CardsVisible ==
    [][(/\ last.op = "forward" /\ last.result = "cards"
        /\ last'.op = "poll" /\ last'.user = last.user
        /\ MidRun(last.user)) =>
          /\ response'.cards = CardResponses(CardsOf(user_caches, last.user))
          /\ response'.cards # <<>>]_vars

---------------------------------------------------------------------------
(* Failing producers, with time passing between the steps *)

\* an hour passes after a producer has merged its cards
TickAfterMerge ==
    last.op = "forward" /\ last.result = "cards" /\ Tick(CACHE_EXPIRY_SECONDS)

\* triggers, polls and runs of one user, with the clock moving after a merge
NextFailing ==
    \/ \E u \in Requesters : PostFulfill(FulfillBody(u))
    \/ \E u \in Requesters : GetCached(u)
    \/ \E k \in 1..MaxTriggers : RunStart(k)
    \/ \E k \in 1..MaxTriggers, f \in AllFulfillers, o \in {"true", "false", "raise"} :
          IsAvailable(k, f, o)
    \/ \E k \in 1..MaxTriggers, f \in AllFulfillers :
          \E cards \in BackgroundResults(f) : ForwardCards(k, f, cards)
    \/ \E k \in 1..MaxTriggers, f \in AllFulfillers : ForwardEmpty(k, f)
    \/ \E k \in 1..MaxTriggers, f \in AllFulfillers : ForwardRaise(k, f)
    \/ \E k \in 1..MaxTriggers : RunFinish(k)
    \/ TickAfterMerge

SpecFailing == InitRegistered /\ [][NextFailing]_vars

\* the step of a producer that failed or produced nothing
Failed(step) ==
    \/ step.op = "is_available" /\ step.result = "raise"
    \/ step.op = "forward" /\ step.result \in {"raise", "empty"}

\* C33: a failing producer leaves the cache as it was: when is_available() or forward()
\* raises, or forward() returns an empty list, the cards and last_updated of the user (and
\* the rest of the store) are unchanged by that step, and the trigger or poll that follows
\* answers 200 with the cards of the cache and no trace of the failure.
C33_FailureLeavesCache ==
    [][/\ Failed(last') => user_caches' = user_caches
       /\ (Failed(last) /\ last'.op \in {"poll", "fulfill"}) =>
             /\ response'.status = 200
             /\ response'.detail = "none"
             /\ response'.cards = CardResponses(CardsOf(user_caches, last'.user))]_vars

\* forward() has raised an hour after a sibling had merged its cards: the cache still
\* holds those cards and the time of their merge
C33_Witness ==
    /\ last = Step("forward", "u1", "raise")
    /\ now = CACHE_EXPIRY_SECONDS
    /\ CardsOf(user_caches, "u1") # <<>>
    /\ user_caches["u1"].last_updated = 0

---------------------------------------------------------------------------
(* The idle timer *)

\* the step is a text change made by the user, not one the handler ignores as ghost text
UserChange ==
    /\ call'.op = "on_text_change"
    /\ ~call'.args[2]
    /\ ~feed_handler._ignoring_next_change

---------------------------------------------------------------------------
(* Ghost text *)

\* C35: a text change with from_ghost_text=True, or the first change after
\* mark_ghost_text_change, only updates last_content: char_count, the idle timer and every
\* other field of the handler stay as they are; the mark is consumed by that one change,
\* so the change after it is counted again.
C35_GhostIgnored ==
    [][call'.op = "on_text_change" =>
          /\ ~feed_handler'._ignoring_next_change
          /\ IF call'.args[2] \/ feed_handler._ignoring_next_change
             THEN feed_handler' = [feed_handler EXCEPT !.last_content = call'.args[1],
                                                       !._ignoring_next_change = FALSE]
             ELSE feed_handler'.char_count =
                     feed_handler.char_count
                        + Abs(Len(call'.args[1]) - Len(feed_handler.last_content))]_vars

\* two characters were typed and the timer started; the text was then emptied by a change
\* made after mark_ghost_text_change: counter and timer are as they were
C35_Witness ==
    /\ call = ClientCall("on_text_change", <<<<>>, FALSE>>, "None")
    /\ feed_handler.last_content = <<>>
    /\ feed_handler.char_count = 2
    /\ feed_handler._idle_task = Task("sleeping", <<"x", "y">>)
    /\ ~feed_handler._ignoring_next_change

---------------------------------------------------------------------------
(* The update guard *)

\* a guard that lets every call through
SkipsNever(h) == FALSE

\* lines 378-380: an update is in progress, the call returns at once
Skips(h) == h._update_in_progress

\* _trigger_update_async is called by another coroutine while the update started by the
\* idle task is waiting for the backend
TriggerAgain ==
    /\ feed_handler._idle_task.state = "requesting"
    /\ IF Skips(feed_handler)
       THEN /\ call' = ClientCall("_trigger_update_async", <<"in_progress">>, "None")
            /\ UNCHANGED <<serverVars, feed_handler, storage_file, suggestion_tracker,
                           query_cache, history>>
       ELSE /\ request' = FulfillBody(feed_handler.user_id)
            /\ Fulfill(feed_handler.user_id)
            /\ LET cards == CardsFromJson(response'.cards)
                   polling == IF response'.processing THEN _start_polling(feed_handler)
                              ELSE feed_handler
               IN feed_handler' = Received(polling, <<cards>>)
            /\ call' = ClientCall("_trigger_update_async", <<"second">>, "None")
            /\ UNCHANGED <<storage_file, suggestion_tracker, query_cache, history>>

\* typing, triggers that are answered or fail, polls, calls of _trigger_update_async
\* during an update, and a cache of the user that other runs fill
NextGuard ==
    \/ \E content \in Contents : UserTypes(content)
    \/ IdleElapsed
    \/ TriggerResponse
    \/ CallBackendFails
    \/ \E kind \in {"status", "error"} : CallBackendRefused(kind)
    \/ TriggerAgain
    \/ PollCached
    \/ \E f \in AllFulfillers : \E cards \in BackgroundResults(f) :
          ApplyCards(feed_handler.user_id, cards)

SpecGuard == InitRegistered /\ [][NextGuard]_vars

\* C36: at most one body of _trigger_update_async is executing at any time: a call made
\* while an update is in progress returns without a request to the backend and without
\* touching the handler, and _update_in_progress is true exactly while the update of the
\* idle task is executing: it is false again after an answer with cards, an answer
\* without cards, a failed request and the cancellation of the idle task.
C36_UpdateGuard ==
    [][/\ feed_handler'._update_in_progress <=>
             feed_handler'._idle_task.state = "requesting"
       /\ call'.op = "_trigger_update_async" => call'.args[1] # "second"
       /\ (/\ call' # call
           /\ call' = ClientCall("_trigger_update_async", <<"in_progress">>, "None")) =>
             /\ feed_handler._update_in_progress
             /\ request' = request
             /\ triggers' = triggers
             /\ user_caches' = user_caches
             /\ background' = background
             /\ feed_handler' = feed_handler]_vars

\* a call made while the request of the idle task was in flight has returned: no trigger
\* has reached the backend
C36_Witness ==
    /\ call = ClientCall("_trigger_update_async", <<"in_progress">>, "None")
    /\ feed_handler._idle_task.state = "requesting"
    /\ feed_handler._update_in_progress
    /\ triggers = 0

---------------------------------------------------------------------------
(* The fallback on a failed request *)

\* the step ends the request of the idle task with this outcome
RequestEnds(outcomes) ==
    /\ feed_handler._idle_task.state = "requesting"
    /\ feed_handler'._idle_task.state = "done"
    /\ call'.op = "_trigger_update_async"
    /\ call'.args[1] \in outcomes

\* C37: when the request of a trigger fails (another status than 200, a timeout or
\* connection error, another exception) the feed shows the cards of the last answered
\* trigger, or is left as it was when that trigger brought no card or no trigger was
\* answered yet; a failed request never empties the feed, and the remembered cards are
\* those of the last answered trigger and are changed by nothing else.
C37_Fallback ==
    [][LET remembered == feed_handler._last_successful_cards
       IN /\ RequestEnds({"status", "timeout", "error"}) =>
                /\ feed_handler'._last_successful_cards = remembered
                /\ IF remembered = <<>>
                   THEN /\ feed_handler'.feed_items = feed_handler.feed_items
                        /\ feed_handler'.ai_feed = feed_handler.ai_feed
                        /\ feed_handler'.ghost_text = feed_handler.ghost_text
                   ELSE /\ feed_handler'.feed_items = remembered
                        /\ feed_handler'.ai_feed =
                              SelectSeq(remembered, LAMBDA c : c.type # "COMPLETION")
                /\ feed_handler.feed_items # <<>> => feed_handler'.feed_items # <<>>
          /\ IF RequestEnds({"200"})
             THEN feed_handler'._last_successful_cards = CardsFromJson(response'.cards)
             ELSE feed_handler'._last_successful_cards = remembered]_vars

\* the backend answered 500 while the cache of the user held three cards: the feed shows
\* the two cards of the last answered trigger
C37_Witness ==
    /\ call = ClientCall("_trigger_update_async", <<"status">>, "None")
    /\ feed_handler.feed_items = feed_handler._last_successful_cards
    /\ Len(feed_handler.feed_items) = 2
    /\ Len(CardsOf(user_caches, "u1")) = 3
    /\ feed_handler._polling_task = "done"

---------------------------------------------------------------------------
(* Two users *)

\* triggers, runs and clears of two users, interleaved, with the clock moving after a merge;
\* in every run one producer is unavailable and the other returns cards
NextUsers ==
    \/ \E u \in Users : PostFulfill(FulfillBody(u))
    \/ \E u \in Users : ClearUserFeed(u)
    \/ \E k \in 1..MaxTriggers : RunStart(k)
    \/ \E k \in 1..MaxTriggers : IsAvailable(k, "Completions", "false")
    \/ \E k \in 1..MaxTriggers : IsAvailable(k, "CodeSearch", "true")
    \/ \E k \in 1..MaxTriggers :
          \E cards \in BackgroundResults("CodeSearch") : ForwardCards(k, "CodeSearch", cards)
    \/ \E k \in 1..MaxTriggers : RunFinish(k)
    \/ TickAfterMerge

SpecUsers == InitRegistered /\ [][NextUsers]_vars

\* C38: user isolation: a trigger, a step of a run (its start, a producer's merge, its end)
\* or a clear for one user leaves the cache of every other user as it is: neither its
\* cards, processing flag, request_count and last_updated nor its presence in the store
\* change, however the runs of the two users interleave.
C38_UserIsolation ==
    [][last'.op \in {"fulfill", "start", "is_available", "forward", "finish", "clear"} =>
          \A other \in Users \ {last'.user} :
              /\ other \in DOMAIN user_caches' <=> other \in DOMAIN user_caches
              /\ other \in DOMAIN user_caches => user_caches'[other] = user_caches[other]]_vars

\* a producer of u2 has merged its cards an hour after u1's cache was filled, while a run of
\* u1 is still in flight: the cache of u1 has its cards, its flag and its time of merge
C38_Witness ==
    /\ last = Step("forward", "u2", "cards")
    /\ now = CACHE_EXPIRY_SECONDS
    /\ RunsOf("u1") # {}
    /\ "u1" \in DOMAIN user_caches
    /\ user_caches["u1"].cards # <<>>
    /\ user_caches["u1"].processing
    /\ user_caches["u1"].last_updated = 0
    /\ user_caches["u2"].last_updated = CACHE_EXPIRY_SECONDS

---------------------------------------------------------------------------
(* Empty texts *)

\* C39: no card whose text is empty or only whitespace is ever admitted: every cache, at
\* every moment, holds only cards whose lower-cased, trimmed text is not empty, also
\* after a merge into a category that held nothing.
C39_BlankNeverAdmitted ==
    \A u \in DOMAIN user_caches : \A i \in DOMAIN user_caches[u].cards :
        Norm(user_caches[u].cards[i].text) # <<>>

---------------------------------------------------------------------------
(* The expiry sweep and runs in flight *)

\* C40: the expiry sweep never removes the cache of a user while a run of that user is in
\* flight on it (processing = true): a GET / step leaves in the store every cache whose
\* processing flag is set and to which a running orchestration is attached, so that run
\* merges into, and resets the flag of, the record it marked.
C40_SweepSparesRunning ==
    [][last'.op = "root" =>
          \A u \in DOMAIN user_caches :
              (user_caches[u].processing /\ \E k \in RunsOf(u) : runs[k].attached)
                  => /\ u \in DOMAIN user_caches'
                     /\ \A k \in RunsOf(u) : runs[k].attached => runs'[k].attached]_vars
====
